---------------------------- MODULE Spec2Model ----------------------------
(***************************************************************************)
(* A model of abstract-query: the range algebra of src/src/range.js, the   *)
(* cube of src/unnamed/part_006 (cube.js) and the query of                 *)
(* src/unnamed/part_002 (query.js).                                        *)
(*                                                                         *)
(* JavaScript values are modelled as follows.                              *)
(*   - a tri-valued result is one of the strings "T" (true), "F" (false),  *)
(*     "N" (null, i.e. unknown), "U" (undefined) and "E" (an exception was *)
(*     thrown);                                                            *)
(*   - a value is [p |-> FALSE, v |-> n] for the number n and              *)
(*     [p |-> TRUE, v |-> n] for the parameter named n;                    *)
(*   - a range is a record with an op field holding the operator string of *)
(*     its class; NullRange is JavaScript's null (the empty range) and     *)
(*     ErrRange stands for a thrown exception;                             *)
(*   - a cube is [k |-> "cube", dims |-> s], s the sequence of its         *)
(*     <<dimension, range>> properties in insertion order;                 *)
(*   - a query is [k |-> "query", union |-> s], s a sequence of cubes.     *)
(***************************************************************************)
EXTENDS Integers, Sequences, FiniteSets, TLC

\* ------------------------------------------------------------------ bounds
MaxVal == 3
NParams == 2
MaxOps == 2
MaxDepth == 12
ExprMaxVal == 2
ExprParams == 1
RangeMaxVal == 2
RangeOps == 1

\* ------------------------------------------------------------------ values

Num(n) == [p |-> FALSE, v |-> n]
Param(n) == [p |-> TRUE, v |-> n]
isParam(a) == a.p

B3(b) == IF b THEN "T" ELSE "F"
Truthy(t) == t = "T"

\* JavaScript's a && b and a || b on tri-valued results (b is only used when
\* a does not decide the result; a thrown exception propagates).
JsAnd(a, b) == IF a = "T" THEN b ELSE a
JsOr(a, b) == IF a = "T" \/ a = "E" THEN a ELSE b

DEFAULT_ORDER(a, b) == a.v < b.v

params(a, b) == isParam(a) \/ isParam(b)
paramsEqual(a, b) == isParam(a) /\ isParam(b) /\ a.v = b.v

equals(a, b) ==
    IF paramsEqual(a, b) THEN "T"
    ELSE IF params(a, b) THEN "N"
    ELSE B3(~DEFAULT_ORDER(a, b) /\ ~DEFAULT_ORDER(b, a))
\* lessThan with a parameter compared as an ordinary value that orders before
\* nothing: false where the comparison is undecided.
lessThanParamsFalse(a, b) ==
    IF params(a, b) THEN "F" ELSE B3(DEFAULT_ORDER(a, b))
lessThan(a, b) ==
    IF params(a, b) THEN (IF paramsEqual(a, b) THEN "F" ELSE "N")
    ELSE B3(DEFAULT_ORDER(a, b))
greaterThan(a, b) ==
    IF params(a, b) THEN (IF paramsEqual(a, b) THEN "F" ELSE "N")
    ELSE B3(DEFAULT_ORDER(b, a))
greaterThanOrEqual(a, b) ==
    IF paramsEqual(a, b) THEN "T"
    ELSE IF params(a, b) THEN "N"
    ELSE B3(~DEFAULT_ORDER(a, b))
lessThanOrEqual(a, b) ==
    IF paramsEqual(a, b) THEN "T"
    ELSE IF params(a, b) THEN "N"
    ELSE B3(~DEFAULT_ORDER(b, a))

\* Param.equals(param): param.$ === this.$; a number has no $ property.
Param_equals(this, param) == param.p /\ param.v = this.v

\* ------------------------------------------------------------------ ranges

NullRange == [op |-> "null"]
ErrRange == [op |-> "error"]
Unbounded == [op |-> "*"]
Equals(value) == [op |-> "=", value |-> value]
LessThan(value) == [op |-> "<", value |-> value]
LessThanOrEqual(value) == [op |-> "<=", value |-> value]
GreaterThan(value) == [op |-> ">", value |-> value]
GreaterThanOrEqual(value) == [op |-> ">=", value |-> value]
Between(lower_bound, upper_bound) ==
    [op |-> "between", lower_bound |-> lower_bound, upper_bound |-> upper_bound]

HasElementMatching(bounds) == [op |-> "has", bounds |-> bounds]
Subquery(query) == [op |-> "contains", query |-> query]

SimpleOps == {"=", "<", "<=", ">", ">="}
isSimple(r) == r.op \in SimpleOps
isNull(r) == r.op = "null"
isErr(r) == r.op = "error"
\* Param.isParam(range.value): false when the range has no value property.
hasParamValue(r) == isSimple(r) /\ isParam(r.value)

Intersection(known_bounds, parametrized_bounds, parameters) ==
    [op |-> "$and", known_bounds |-> known_bounds,
     parametrized_bounds |-> parametrized_bounds, parameters |-> parameters]

\* ------------------------------------------------------------ Range.equals

RECURSIVE Range_equals(_, _)

Unbounded_equals(this, range) == B3(this.op = range.op)

OpenRange_equals(this, range) ==
    JsAnd(B3(this.op = range.op), IF isSimple(range) THEN equals(this.value, range.value) ELSE "F")

Equals_equals(this, range) ==
    JsAnd(B3(this.op = range.op), IF isSimple(range) THEN equals(this.value, range.value) ELSE "F")

Between_equals(this, range) ==
    IF this.op # range.op THEN "F"
    ELSE JsAnd(Range_equals(this.lower_bound, range.lower_bound),
               Range_equals(this.upper_bound, range.upper_bound))

\* The loop header assigns the undeclared variable i inside a class body
\* (strict mode): a ReferenceError is thrown as soon as the loop is reached.
Intersection_equals(this, range) ==
    IF this.op # range.op THEN "F"
    ELSE LET known == Range_equals(this.known_bounds, range.known_bounds)
         IN  IF known = "E" THEN "E"
             ELSE IF ~Truthy(known) THEN "F"
             ELSE IF Len(this.parameters) = Len(range.parameters) THEN "E"
             ELSE "F"

Range_equals(this, range) ==
    IF isErr(this) \/ isErr(range) \/ isNull(this) \/ isNull(range) THEN "E"
    ELSE CASE this.op = "*" -> Unbounded_equals(this, range)
           [] this.op = "=" -> Equals_equals(this, range)
           [] this.op \in {"<", "<=", ">", ">="} -> OpenRange_equals(this, range)
           [] this.op = "between" -> Between_equals(this, range)
           [] this.op = "$and" -> Intersection_equals(this, range)

\* ---------------------------------------------------------- Range.contains

RECURSIVE contains(_, _)
RECURSIVE containedBy(_, _)
RECURSIVE Intersection_containsFrom(_, _, _, _)

Unbounded_contains(this, range) == "T"

Equals_contains(this, range) == Equals_equals(this, range)

LessThan_contains(this, range) ==
    CASE range.op \in {"=", "<="} -> lessThan(range.value, this.value)
      [] range.op = "<" -> lessThanOrEqual(range.value, this.value)
      [] range.op = "between" -> contains(this, range.upper_bound)
      [] range.op = "$and" -> containedBy(range, this)
      [] OTHER -> "F"

LessThanOrEqual_contains(this, range) ==
    CASE range.op \in {"=", "<", "<="} -> lessThanOrEqual(range.value, this.value)
      [] range.op = "between" -> contains(this, range.upper_bound)
      [] range.op = "$and" -> containedBy(range, this)
      [] OTHER -> "F"

GreaterThan_contains(this, range) ==
    CASE range.op \in {"=", ">="} -> greaterThan(range.value, this.value)
      [] range.op = ">" -> greaterThanOrEqual(range.value, this.value)
      [] range.op = "between" -> contains(this, range.lower_bound)
      [] range.op = "$and" -> containedBy(range, this)
      [] OTHER -> "F"

GreaterThanOrEqual_contains(this, range) ==
    CASE range.op \in {"=", ">", ">="} -> greaterThanOrEqual(range.value, this.value)
      [] range.op = "between" -> contains(this, range.lower_bound)
      [] range.op = "$and" -> containedBy(range, this)
      [] OTHER -> "F"

Between_contains(this, range) ==
    JsAnd(contains(this.lower_bound, range), contains(this.upper_bound, range))

\* The loop of Intersection.contains from index i on, result being the value
\* computed so far.
Intersection_containsFrom(this, range, i, result) ==
    IF i > Len(this.parameters) \/ result # "T" THEN result
    ELSE Intersection_containsFrom(this, range, i + 1,
            contains(this.parametrized_bounds[this.parameters[i]], range))

Intersection_contains(this, range) ==
    Intersection_containsFrom(this, range, 1, contains(this.known_bounds, range))

\* Intersection.containedBy(range): this is the intersection, range a range
\* with a single bound.
containedBy(this, range) ==
    LET known == contains(range, this.known_bounds)
    IN  IF known \in {"T", "E"} THEN known
        ELSE IF hasParamValue(range)
        THEN IF range.value.v \in DOMAIN this.parametrized_bounds
             THEN contains(range, this.parametrized_bounds[range.value.v])
             ELSE "U"
        ELSE IF \A p \in DOMAIN this.parametrized_bounds :
                    contains(range, this.parametrized_bounds[p]) = "F"
        THEN "F"
        ELSE "N"

contains(this, range) ==
    IF isErr(this) \/ isErr(range) \/ isNull(this) THEN "E"
    ELSE IF this.op = "*" THEN Unbounded_contains(this, range)
    ELSE IF isNull(range) THEN "E"
    ELSE CASE this.op = "=" -> Equals_contains(this, range)
           [] this.op = "<" -> LessThan_contains(this, range)
           [] this.op = "<=" -> LessThanOrEqual_contains(this, range)
           [] this.op = ">" -> GreaterThan_contains(this, range)
           [] this.op = ">=" -> GreaterThanOrEqual_contains(this, range)
           [] this.op = "between" -> Between_contains(this, range)
           [] this.op = "$and" -> Intersection_contains(this, range)

\* ------------------------------------------------------ Range.containsItem
\* item is a concrete value of the record being tested.

RECURSIVE containsItem(_, _)
RECURSIVE Intersection_containsItemFrom(_, _, _, _)

Unbounded_containsItem(this, item) == "T"

Equals_containsItem(this, item) ==
    IF isParam(this.value) THEN "N" ELSE equals(this.value, item)

LessThan_containsItem(this, item) ==
    IF isParam(this.value) THEN "N" ELSE lessThan(item, this.value)

LessThanOrEqual_containsItem(this, item) ==
    IF isParam(this.value) THEN "N" ELSE lessThanOrEqual(item, this.value)

GreaterThan_containsItem(this, item) ==
    IF isParam(this.value) THEN "N" ELSE greaterThan(item, this.value)

GreaterThanOrEqual_containsItem(this, item) ==
    IF isParam(this.value) THEN "N" ELSE greaterThanOrEqual(item, this.value)

\* The body reads the variable range, which is not defined in this method:
\* evaluating the first argument throws a ReferenceError.
Between_containsItem(this, item) == "E"

Intersection_containsItemFrom(this, item, i, result) ==
    IF i > Len(this.parameters) \/ result # "T" THEN result
    ELSE Intersection_containsItemFrom(this, item, i + 1,
            containsItem(this.parametrized_bounds[this.parameters[i]], item))

\* known_bounds.contains(item) is called with the item itself: a number has
\* no operator property, so only Unbounded answers true.
Intersection_containsItem(this, item) ==
    Intersection_containsItemFrom(this, item, 1,
        IF this.known_bounds.op = "*" THEN "T" ELSE "F")

containsItem(this, item) ==
    IF isErr(this) \/ isNull(this) THEN "E"
    ELSE CASE this.op = "*" -> Unbounded_containsItem(this, item)
           [] this.op = "=" -> Equals_containsItem(this, item)
           [] this.op = "<" -> LessThan_containsItem(this, item)
           [] this.op = "<=" -> LessThanOrEqual_containsItem(this, item)
           [] this.op = ">" -> GreaterThan_containsItem(this, item)
           [] this.op = ">=" -> GreaterThanOrEqual_containsItem(this, item)
           [] this.op = "between" -> Between_containsItem(this, item)
           [] this.op = "$and" -> Intersection_containsItem(this, item)

\* --------------------------------------------------------- Range.intersect

\* The methods below call one another; some calls never return (a Between
\* built with its bounds swapped sends Between.intersect back to itself) and
\* end in the engine's RangeError "Maximum call stack size exceeded".  Each
\* operator carries d, the number of nested intersect calls still allowed:
\* a call that needs more than MaxDepth of them is an exception (ErrRange).
RECURSIVE intersect(_, _, _)
RECURSIVE Query_andQuery(_, _)
RECURSIVE addRange(_, _, _)
RECURSIVE addRangesFrom(_, _, _, _)
RECURSIVE intersectAllFrom(_, _, _, _)

\* The result of addRange: ok is its return value ("T", "F", or "E" when it
\* throws) and I the intersection as the call leaves it.
AddResult(ok, I) == [ok |-> ok, I |-> I]

\* addRange without the test `old_param === undefined`: the parameter's name
\* is pushed on every call.
addRangePushesAgain(I, range, d) ==
    IF isErr(range) \/ isNull(range) THEN AddResult("E", I)
    ELSE IF range.op = "*" THEN AddResult("T", I)
    ELSE IF range.op = "between"
    THEN LET lower == addRange(I, range.lower_bound, d)
         IN  IF lower.ok = "T" THEN addRange(lower.I, range.upper_bound, d) ELSE lower
    ELSE IF range.op = "$and"
    THEN LET known == addRange(I, range.known_bounds, d)
         IN  IF known.ok = "T"
             THEN addRangesFrom(known.I,
                    [i \in 1..Len(range.parameters) |->
                        range.parametrized_bounds[range.parameters[i]]], 1, d)
             ELSE known
    ELSE IF hasParamValue(range)
    THEN LET name == range.value.v
             has_old == name \in DOMAIN I.parametrized_bounds
             new_param == IF has_old THEN intersect(I.parametrized_bounds[name], range, d)
                          ELSE range
         IN  IF isErr(new_param) THEN AddResult("E", I)
             ELSE IF isNull(new_param) THEN AddResult("F", I)
             ELSE AddResult("T",
                    Intersection(I.known_bounds,
                        (name :> new_param) @@ I.parametrized_bounds,
                        Append(I.parameters, name)))
    ELSE LET known_bounds == intersect(I.known_bounds, range, d)
         IN  IF isErr(known_bounds) THEN AddResult("E", I)
             ELSE IF isNull(known_bounds) THEN AddResult("F", I)
             ELSE AddResult("T",
                    Intersection(known_bounds, I.parametrized_bounds, I.parameters))

\* Intersection.addRange(range) on the intersection I.
addRange(I, range, d) ==
    IF isErr(range) \/ isNull(range) THEN AddResult("E", I)
    ELSE IF range.op = "*" THEN AddResult("T", I)
    ELSE IF range.op = "between"
    THEN LET lower == addRange(I, range.lower_bound, d)
         IN  IF lower.ok = "T" THEN addRange(lower.I, range.upper_bound, d) ELSE lower
    ELSE IF range.op = "$and"
    THEN LET known == addRange(I, range.known_bounds, d)
         IN  IF known.ok = "T"
             THEN addRangesFrom(known.I,
                    [i \in 1..Len(range.parameters) |->
                        range.parametrized_bounds[range.parameters[i]]], 1, d)
             ELSE known
    ELSE IF hasParamValue(range)
    THEN LET name == range.value.v
             has_old == name \in DOMAIN I.parametrized_bounds
             new_param == IF has_old THEN intersect(I.parametrized_bounds[name], range, d)
                          ELSE range
         IN  IF isErr(new_param) THEN AddResult("E", I)
             ELSE IF isNull(new_param) THEN AddResult("F", I)
             ELSE AddResult("T",
                    Intersection(I.known_bounds,
                        (name :> new_param) @@ I.parametrized_bounds,
                        IF has_old THEN I.parameters ELSE Append(I.parameters, name)))
    ELSE LET known_bounds == intersect(I.known_bounds, range, d)
         IN  IF isErr(known_bounds) THEN AddResult("E", I)
             ELSE IF isNull(known_bounds) THEN AddResult("F", I)
             ELSE AddResult("T",
                    Intersection(known_bounds, I.parametrized_bounds, I.parameters))

\* addRange of ranges[i], ranges[i+1], ... in turn, stopping at the first
\* call that does not return true.
addRangesFrom(I, ranges, i, d) ==
    IF i > Len(ranges) THEN AddResult("T", I)
    ELSE LET r == addRange(I, ranges[i], d)
         IN  IF r.ok = "T" THEN addRangesFrom(r.I, ranges, i + 1, d) ELSE r

\* new Intersection(...ranges): throws a RangeError when an addRange fails.
Intersection_new(ranges, d) ==
    LET r == addRangesFrom(Intersection(Unbounded, <<>>, <<>>), ranges, 1, d)
    IN  IF r.ok = "T" THEN r.I ELSE ErrRange

\* result.intersect(ranges[i]) for i, i+1, ... while result is not null.
intersectAllFrom(result, ranges, i, d) ==
    IF i > Len(ranges) \/ isNull(result) \/ isErr(result) THEN result
    ELSE intersectAllFrom(intersect(result, ranges[i], d), ranges, i + 1, d)

\* The values of parametrized_bounds in property order.
boundsOf(this) ==
    [i \in 1..Len(this.parameters) |-> this.parametrized_bounds[this.parameters[i]]]

Intersection_intersect(this, range, d) ==
    IF range.op = "*" THEN this
    ELSE IF range.op \in {"$and", "between"}
    THEN intersectAllFrom(intersect(range, this.known_bounds, d), boundsOf(this), 1, d)
    ELSE LET clone == Intersection_new(<<this.known_bounds>> \o boundsOf(this), d)
         IN  IF isErr(clone) THEN clone
             ELSE LET r == addRange(clone, range, d)
                  IN  IF r.ok = "T" THEN r.I
                      ELSE IF r.ok = "E" THEN ErrRange
                      ELSE NullRange

Between_intersect(this, range, d) ==
    CASE range.op = "*" -> this
      [] range.op = "between" ->
            intersect(intersect(this.lower_bound, range.lower_bound, d),
                      intersect(this.upper_bound, range.upper_bound, d), d)
      [] range.op = "$and" ->
            LET result == intersect(range, this.lower_bound, d)
            IN  IF isNull(result) THEN result ELSE intersect(result, this.upper_bound, d)
      [] range.op \in {"<", "<="} ->
            intersect(intersect(this.upper_bound, range, d), this.lower_bound, d)
      [] range.op \in {">", ">="} ->
            intersect(intersect(this.lower_bound, range, d), this.upper_bound, d)
      [] range.op = "has" -> ErrRange
      [] OTHER -> NullRange

Equals_intersect(this, range, d) ==
    IF range.op # "=" THEN intersect(range, this, d)
    ELSE LET is_equal == equals(this.value, range.value)
         IN  IF is_equal = "N" THEN Intersection_new(<<this, range>>, d)
             ELSE IF is_equal = "T" THEN this
             ELSE NullRange

LessThan_intersect(this, range, d) ==
    CASE range.op = "*" -> this
      [] range.op \in {"between", "$and"} -> intersect(range, this, d)
      [] range.op \in {"<", "<="} ->
            IF isParam(this.value) \/ isParam(range.value)
            THEN IF isParam(this.value) /\ Truthy(equals(this.value, range.value))
                 THEN this
                 ELSE Intersection_new(<<this, range>>, d)
            ELSE IF Truthy(lessThanOrEqual(this.value, range.value)) THEN this
                 ELSE range
      [] range.op \in {">", ">="} ->
            IF isParam(this.value) \/ isParam(range.value)
            THEN IF isParam(this.value) /\ Param_equals(this.value, range.value)
                 THEN NullRange
                 ELSE Between(range, this)
            ELSE IF Truthy(lessThan(range.value, this.value)) THEN Between(range, this)
                 ELSE NullRange
      [] range.op = "=" ->
            IF isParam(this.value) \/ isParam(range.value)
            THEN IF isParam(this.value) /\ Param_equals(this.value, range.value)
                 THEN NullRange
                 ELSE Intersection_new(<<this, range>>, d)
            ELSE IF Truthy(lessThan(range.value, this.value)) THEN range
                 ELSE NullRange
      [] OTHER -> ErrRange

LessThanOrEqual_intersect(this, range, d) ==
    CASE range.op = "*" -> this
      [] range.op \in {"between", "$and"} -> intersect(range, this, d)
      [] range.op \in {"<", "<="} ->
            IF isParam(this.value) \/ isParam(range.value)
            THEN IF isParam(this.value) /\ Param_equals(this.value, range.value)
                 THEN range
                 ELSE Intersection_new(<<this, range>>, d)
            ELSE IF Truthy(lessThanOrEqual(this.value, range.value)) THEN this
                 ELSE range
      [] range.op = ">" ->
            IF isParam(this.value) \/ isParam(range.value)
            THEN IF isParam(this.value) /\ Param_equals(this.value, range.value)
                 THEN NullRange
                 ELSE Between(range, this)
            ELSE IF Truthy(lessThan(range.value, this.value)) THEN Between(range, this)
                 ELSE NullRange
      [] range.op = ">=" ->
            IF isParam(this.value) \/ isParam(range.value)
            THEN IF isParam(this.value) /\ Param_equals(this.value, range.value)
                 THEN Equals(this.value)
                 ELSE Intersection_new(<<this, range>>, d)
            ELSE IF Truthy(lessThan(range.value, this.value)) THEN Between(range, this)
                 ELSE IF Truthy(equals(range.value, this.value)) THEN Equals(range.value)
                 ELSE NullRange
      [] range.op = "=" ->
            IF isParam(this.value) \/ isParam(range.value)
            THEN IF isParam(this.value) /\ Param_equals(this.value, range.value)
                 THEN range
                 ELSE Intersection_new(<<this, range>>, d)
            ELSE IF Truthy(lessThanOrEqual(range.value, this.value)) THEN range
                 ELSE NullRange
      [] OTHER -> ErrRange

GreaterThan_intersect(this, range, d) ==
    CASE range.op = "*" -> this
      [] range.op \in {"between", "$and"} -> intersect(range, this, d)
      [] range.op \in {">", ">="} ->
            IF isParam(this.value) \/ isParam(range.value)
            THEN IF isParam(this.value) /\ Param_equals(this.value, range.value)
                 THEN this
                 ELSE Intersection_new(<<this, range>>, d)
            ELSE IF Truthy(greaterThanOrEqual(this.value, range.value)) THEN this
                 ELSE range
      [] range.op \in {"<", "<="} ->
            IF isParam(this.value) \/ isParam(range.value)
            THEN IF isParam(this.value) /\ Param_equals(this.value, range.value)
                 THEN NullRange
                 ELSE Between(this, range)
            ELSE IF Truthy(lessThan(this.value, range.value)) THEN Between(this, range)
                 ELSE NullRange
      [] range.op = "=" ->
            IF isParam(this.value) \/ isParam(range.value)
            THEN IF isParam(this.value) /\ Param_equals(this.value, range.value)
                 THEN NullRange
                 ELSE Intersection_new(<<this, range>>, d)
            ELSE IF Truthy(greaterThan(range.value, this.value)) THEN range
                 ELSE NullRange
      [] OTHER -> ErrRange

GreaterThanOrEqual_intersect(this, range, d) ==
    CASE range.op = "*" -> this
      [] range.op \in {"between", "$and"} -> intersect(range, this, d)
      [] range.op \in {">", ">="} ->
            IF isParam(this.value) \/ isParam(range.value)
            THEN IF isParam(this.value) /\ Param_equals(this.value, range.value)
                 THEN range
                 ELSE Intersection_new(<<this, range>>, d)
            ELSE IF Truthy(greaterThanOrEqual(this.value, range.value)) THEN this
                 ELSE range
      [] range.op = "<" ->
            IF isParam(this.value) \/ isParam(range.value)
            THEN IF isParam(this.value) /\ Param_equals(this.value, range.value)
                 THEN NullRange
                 ELSE Between(this, range)
            ELSE IF Truthy(greaterThan(range.value, this.value)) THEN Between(this, range)
                 ELSE NullRange
      [] range.op = "<=" ->
            IF isParam(this.value) \/ isParam(range.value)
            THEN IF isParam(this.value) /\ Param_equals(this.value, range.value)
                 THEN Equals(this.value)
                 ELSE Intersection_new(<<this, range>>, d)
            ELSE IF Truthy(greaterThan(range.value, this.value)) THEN Between(range, this)
                 ELSE IF Truthy(equals(range.value, this.value)) THEN Equals(range.value)
                 ELSE NullRange
      [] range.op = "=" ->
            IF isParam(this.value) \/ isParam(range.value)
            THEN IF isParam(this.value) /\ Param_equals(this.value, range.value)
                 THEN range
                 ELSE Intersection_new(<<this, range>>, d)
            ELSE IF Truthy(greaterThanOrEqual(range.value, this.value)) THEN range
                 ELSE NullRange
      [] OTHER -> ErrRange

Unbounded_intersect(this, range, d) == range

\* The bounds of the new range are whatever this.bounds.intersect returns,
\* null included; an exception thrown by it propagates.
HasElementMatching_intersect(this, range, d) ==
    IF range.op = "*" THEN this
    ELSE IF range.op = "has"
    THEN LET bounds == intersect(this.bounds, range.bounds, d)
         IN  IF isErr(bounds) THEN ErrRange ELSE HasElementMatching(bounds)
    ELSE ErrRange

Subquery_intersect(this, range, d) ==
    IF range.op = "*" THEN this
    ELSE IF range.op = "contains"
    THEN LET query == Query_andQuery(this.query, range.query)
         IN  IF query.k = "error" THEN ErrRange ELSE Subquery(query)
    ELSE ErrRange

\* this.intersect(range) with room for d nested calls of intersect; the
\* class of this selects the method.
intersect(this, range, d) ==
    IF d = 0 THEN ErrRange
    ELSE IF isErr(this) \/ isErr(range) \/ isNull(this) THEN ErrRange
    ELSE IF this.op = "*" THEN Unbounded_intersect(this, range, d - 1)
    ELSE IF isNull(range) THEN ErrRange
    ELSE CASE this.op = "=" -> Equals_intersect(this, range, d - 1)
           [] this.op = "<" -> LessThan_intersect(this, range, d - 1)
           [] this.op = "<=" -> LessThanOrEqual_intersect(this, range, d - 1)
           [] this.op = ">" -> GreaterThan_intersect(this, range, d - 1)
           [] this.op = ">=" -> GreaterThanOrEqual_intersect(this, range, d - 1)
           [] this.op = "between" -> Between_intersect(this, range, d - 1)
           [] this.op = "$and" -> Intersection_intersect(this, range, d - 1)
           [] this.op = "has" -> HasElementMatching_intersect(this, range, d - 1)
           [] this.op = "contains" -> Subquery_intersect(this, range, d - 1)

\* ------------------------------------------------- Range.from and its sugar
\* A constraint value is written as one of
\*   [s |-> "scalar", v |-> value]                 a bare value or parameter
\*   [s |-> "array", lo |-> value, hi |-> value]   [lo, hi]; Undefined = elided
\*   [s |-> "bounds", op |-> operator, v |-> value]   { "<=" : v } and the like
\*   [s |-> "$and", list |-> sequence of bounds]   { $and : [ ... ] }
\*   [s |-> "range", r |-> range]                  a Range object

Undefined == [undef |-> TRUE]
isUndefined(v) == "undef" \in DOMAIN v

Scalar(v) == [s |-> "scalar", v |-> v]
Arr(lo, hi) == [s |-> "array", lo |-> lo, hi |-> hi]
Bounds(op, v) == [s |-> "bounds", op |-> op, v |-> v]
And(list) == [s |-> "$and", list |-> list]

RANGE_OPERATORS(op, value) ==
    CASE op = ">" -> GreaterThan(value)
      [] op = "<" -> LessThan(value)
      [] op = ">=" -> GreaterThanOrEqual(value)
      [] op = "<=" -> LessThanOrEqual(value)
      [] op = "=" -> Equals(value)

\* A bare value where a range is expected: Range.fromValue hands a falsy
\* argument back as it is.
NotARange(v) == [op |-> "value", value |-> v]
Rng(r) == [s |-> "range", r |-> r]

\* !obj for a value: the number 0 stands for the falsy scalars 0, "" and
\* false; parameters and the other numbers are truthy.
Falsy(v) == ~isUndefined(v) /\ ~isParam(v) /\ v.v = 0

\* JavaScript's truthiness of what fromValue returns.
isRange(r) == ~isUndefined(r) /\ r.op \notin {"value", "null", "error"}

\* Range.fromValue(obj, default_constructor) on a value, a parameter or
\* undefined; default_constructor is named by its operator.
fromValue(obj, default_constructor) ==
    IF isUndefined(obj) THEN Undefined
    ELSE IF Falsy(obj) THEN NotARange(obj)
    ELSE RANGE_OPERATORS(default_constructor, obj)

\* Range.between(lower, upper) on what fromValue returned for the two
\* elements (fromValue hands a range, undefined and a falsy value back).
Range_between(lower, upper) ==
    IF isRange(lower) /\ isRange(upper) THEN intersect(lower, upper, MaxDepth)
    ELSE IF isRange(upper) THEN upper
    ELSE lower

\* Range.and(ranges): every element is a bounds object here.
Range_and(ranges) ==
    intersectAllFrom(Unbounded,
        [i \in 1..Len(ranges) |-> RANGE_OPERATORS(ranges[i].op, ranges[i].v)], 1, MaxDepth)

Range_from(bounds) ==
    CASE bounds.s = "array" ->
            Range_between(fromValue(bounds.lo, ">="), fromValue(bounds.hi, "<"))
      [] bounds.s = "bounds" -> RANGE_OPERATORS(bounds.op, bounds.v)
      [] bounds.s = "$and" -> Range_and(bounds.list)
      [] bounds.s = "range" -> bounds.r
      [] bounds.s = "scalar" -> fromValue(bounds.v, "=")

\* -------------------------------------------------------------- Range.bind
\* parameters maps the names of some parameters to values.

RECURSIVE bind(_, _)
RECURSIVE Query_bind(_, _)
RECURSIVE Intersection_bindFrom(_, _, _, _)

Unbounded_bind(this, parameters) == this

\* bind of Equals, LessThan, LessThanOrEqual, GreaterThan and
\* GreaterThanOrEqual: a range of the same class on the value bound to the
\* parameter, this when the value is no parameter or is not bound.
OpenRange_bind(this, parameters) ==
    IF isParam(this.value) /\ this.value.v \in DOMAIN parameters
    THEN RANGE_OPERATORS(this.op, parameters[this.value.v])
    ELSE this

Between_bind(this, parameters) ==
    LET lower_bound == bind(this.lower_bound, parameters)
        upper_bound == bind(this.upper_bound, parameters)
    IN  IF this.lower_bound = lower_bound /\ this.upper_bound = upper_bound THEN this
        ELSE Range_between(lower_bound, upper_bound)

\* The loop of Intersection.bind from parameter i on.
Intersection_bindFrom(this, parameters, i, result) ==
    IF i > Len(this.parameters) \/ isNull(result) \/ isErr(result) THEN result
    ELSE Intersection_bindFrom(this, parameters, i + 1,
            intersect(result, bind(boundsOf(this)[i], parameters), MaxDepth))

Intersection_bind(this, parameters) ==
    Intersection_bindFrom(this, parameters, 1, this.known_bounds)

\* bounds !== this.bounds is tested first, so the test for null below it is
\* only reached when this.bounds is null itself.
HasElementMatching_bind(this, parameters) ==
    LET bounds == bind(this.bounds, parameters)
    IN  IF isErr(bounds) THEN ErrRange
        ELSE IF bounds # this.bounds THEN HasElementMatching(bounds)
        ELSE IF isNull(bounds) THEN NullRange
        ELSE this

\* Query.bind returns a new Query or null, never this.query itself: the
\* comparison query !== this.query is always true.
Subquery_bind(this, parameters) ==
    LET query == Query_bind(this.query, parameters)
    IN  IF query.k = "error" THEN ErrRange ELSE Subquery(query)

\* this.bind(parameters); a call on null or on a value that is no range
\* throws.
bind(this, parameters) ==
    IF isErr(this) \/ isNull(this) \/ ~isRange(this) THEN ErrRange
    ELSE CASE this.op = "*" -> Unbounded_bind(this, parameters)
           [] this.op \in SimpleOps -> OpenRange_bind(this, parameters)
           [] this.op = "between" -> Between_bind(this, parameters)
           [] this.op = "$and" -> Intersection_bind(this, parameters)
           [] this.op = "has" -> HasElementMatching_bind(this, parameters)
           [] this.op = "contains" -> Subquery_bind(this, parameters)

\* -------------------------------------------------------------------- Cube

NullCube == [k |-> "undefined"]
ErrCube == [k |-> "error"]
Cube(dims) == [k |-> "cube", dims |-> dims]
isCube(c) == c.k = "cube"

keys(cube) == {cube.dims[i].d : i \in 1..Len(cube.dims)}
hasKey(cube, d) == d \in keys(cube)
get(cube, d) == (CHOOSE i \in 1..Len(cube.dims) : cube.dims[i].d = d) \* index
rangeOf(cube, d) == cube.dims[get(cube, d)].r

\* new Cube(constraints): constraints is a sequence of [d |-> dimension,
\* s |-> constraint value] in property order.
Cube_new(constraints) ==
    Cube([i \in 1..Len(constraints) |->
            [d |-> constraints[i].d, r |-> Range_from(constraints[i].s)]])

RECURSIVE Cube_equalsFrom(_, _, _)
Cube_equalsFrom(this, other, i) ==
    IF i > Len(this.dims) THEN "T"
    ELSE LET key == this.dims[i].d
         IN  IF ~hasKey(other, key) THEN "F"
             ELSE LET eq == Range_equals(this.dims[i].r, rangeOf(other, key))
                  IN  IF eq = "T" THEN Cube_equalsFrom(this, other, i + 1)
                      ELSE IF eq = "E" THEN "E"
                      ELSE "F"

\* Cube.equals(other); other is NullCube when the caller passes undefined,
\* and Object.keys(undefined) throws a TypeError.
Cube_equals(this, other) ==
    IF ~isCube(other) THEN "E"
    ELSE IF Len(this.dims) # Len(other.dims) THEN "F"
    ELSE Cube_equalsFrom(this, other, 1)

\* Cube.contains without the test that other has the dimension: a dimension
\* of this that other does not constrain is passed over.
Cube_containsSkipsMissing(this, other) ==
    IF \A i \in 1..Len(this.dims) :
            \/ ~hasKey(other, this.dims[i].d)
            \/ contains(this.dims[i].r, rangeOf(other, this.dims[i].d)) = "T"
    THEN "T" ELSE "F"

\* Cube.contains(other) with the tri-valued result that Query._containsCube
\* and the query tests rely on: false as soon as a dimension of this is
\* missing in other or is not contained, unknown when no dimension is false
\* and some containment is unknown.
RECURSIVE Cube_containsFrom(_, _, _, _)
Cube_containsFrom(this, other, i, result) ==
    IF i > Len(this.dims) THEN result
    ELSE LET dimension == this.dims[i].d
         IN  IF ~hasKey(other, dimension) THEN "F"
             ELSE LET c == contains(this.dims[i].r, rangeOf(other, dimension))
                  IN  CASE c = "T" -> Cube_containsFrom(this, other, i + 1, result)
                        [] c = "N" -> Cube_containsFrom(this, other, i + 1, "N")
                        [] c = "E" -> "E"
                        [] OTHER -> "F"

Cube_contains(this, other) == Cube_containsFrom(this, other, 1, "T")

\* Cube.contains(other) as src/src/cube.js has it: the callback is
\* other[dimension] && other[dimension].contains(range), the range of other
\* being asked whether it contains the range of this. The result is true
\* when the callback is truthy for every dimension of this.
RECURSIVE Cube_containsSrcFrom(_, _, _)
Cube_containsSrcFrom(this, other, i) ==
    IF i > Len(this.dims) THEN "T"
    ELSE LET dimension == this.dims[i].d
         IN  IF ~hasKey(other, dimension) THEN "F"
             ELSE LET c == contains(rangeOf(other, dimension), this.dims[i].r)
                  IN  CASE c = "T" -> Cube_containsSrcFrom(this, other, i + 1)
                        [] c = "E" -> "E"
                        [] OTHER -> "F"

Cube_containsSrc(this, other) == Cube_containsSrcFrom(this, other, 1)

\* Cube.containsItem(item): item maps every dimension of the record to its
\* value; a dimension the record lacks fails.
RECURSIVE Cube_containsItemFrom(_, _, _, _)
Cube_containsItemFrom(this, item, i, result) ==
    IF i > Len(this.dims) THEN result
    ELSE LET dimension == this.dims[i].d
         IN  IF dimension \notin DOMAIN item THEN "F"
             ELSE LET c == containsItem(this.dims[i].r, item[dimension])
                  IN  CASE c = "T" -> Cube_containsItemFrom(this, item, i + 1, result)
                        [] c = "N" -> Cube_containsItemFrom(this, item, i + 1, "N")
                        [] c = "E" -> "E"
                        [] OTHER -> "F"

Cube_containsItem(this, item) == Cube_containsItemFrom(this, item, 1, "T")

\* Object.assign(new Cube(), this, other): the properties of this in order,
\* then those of other that this lacks; other's values win.
assign(this, other) ==
    [i \in 1..Len(this.dims) |->
        IF hasKey(other, this.dims[i].d)
        THEN [d |-> this.dims[i].d, r |-> rangeOf(other, this.dims[i].d)]
        ELSE this.dims[i]]
    \o SelectSeq(other.dims, LAMBDA e : ~hasKey(this, e.d))

RECURSIVE Cube_intersectFrom(_, _, _, _)
Cube_intersectFrom(this, other, result, i) ==
    IF i > Len(result) THEN Cube(result)
    ELSE LET dimension == result[i].d
         IN  IF hasKey(this, dimension) /\ hasKey(other, dimension)
             THEN LET range_intersection ==
                        intersect(rangeOf(this, dimension), rangeOf(other, dimension), MaxDepth)
                  IN  IF isErr(range_intersection) THEN ErrCube
                      ELSE IF isNull(range_intersection) THEN NullCube
                      ELSE Cube_intersectFrom(this, other,
                            [result EXCEPT ![i].r = range_intersection], i + 1)
             ELSE Cube_intersectFrom(this, other, result, i + 1)

Cube_intersect(this, other) == Cube_intersectFrom(this, other, assign(this, other), 1)

\* ------------------------------------------------------------------- Query

ErrQuery == [k |-> "error"]
Query(cubes) == [k |-> "query", union |-> cubes]
isQuery(q) == q.k = "query"

Query_from(obj) == Query(<<Cube_new(obj)>>)

\* The loop of Query._orCube from cube i on; result and match are its
\* local variables.
RECURSIVE Query_orCubeFrom(_, _, _, _, _)
Query_orCubeFrom(this, other_cube, i, result, match) ==
    IF i > Len(this.union)
    THEN Query(IF ~match THEN Append(result, other_cube) ELSE result)
    ELSE LET cube == this.union[i]
             c1 == Cube_contains(cube, other_cube)
         IN  IF c1 = "E" THEN ErrQuery
             ELSE IF Truthy(c1)
             THEN Query_orCubeFrom(this, other_cube, i + 1, Append(result, cube), TRUE)
             ELSE LET c2 == Cube_contains(other_cube, cube)
                  IN  IF c2 = "E" THEN ErrQuery
                      ELSE IF Truthy(c2)
                      THEN Query_orCubeFrom(this, other_cube, i + 1,
                                Append(result, other_cube), TRUE)
                      ELSE Query_orCubeFrom(this, other_cube, i + 1,
                                Append(result, cube), match)

Query_orCube(this, other_cube) ==
    IF ~isQuery(this) THEN ErrQuery
    ELSE Query_orCubeFrom(this, other_cube, 1, <<>>, FALSE)

Query_orConstraint(this, other_constraint) ==
    Query_orCube(this, Cube_new(other_constraint))

RECURSIVE Query_orQueryFrom(_, _, _)
Query_orQueryFrom(result, other_query, i) ==
    IF i > Len(other_query.union) \/ ~isQuery(result) THEN result
    ELSE Query_orQueryFrom(Query_orCube(result, other_query.union[i]), other_query, i + 1)

Query_orQuery(this, other_query) ==
    IF ~isQuery(this) \/ ~isQuery(other_query) THEN ErrQuery
    ELSE Query_orQueryFrom(this, other_query, 1)

RECURSIVE Query_andCubeFrom(_, _, _, _)
Query_andCubeFrom(this, other_cube, i, result) ==
    IF i > Len(this.union) THEN Query(result)
    ELSE LET intersection == Cube_intersect(this.union[i], other_cube)
         IN  IF intersection = ErrCube THEN ErrQuery
             ELSE Query_andCubeFrom(this, other_cube, i + 1,
                    IF isCube(intersection) THEN Append(result, intersection) ELSE result)

Query_andCube(this, other_cube) ==
    IF ~isQuery(this) THEN ErrQuery
    ELSE Query_andCubeFrom(this, other_cube, 1, <<>>)

Query_andConstraint(this, constraint) == Query_andCube(this, Cube_new(constraint))

\* The loop of Query.andQuery: result starts as other_query and is and-ed
\* with each cube of this in turn.
RECURSIVE Query_andQueryFrom(_, _, _)
Query_andQueryFrom(this, result, i) ==
    IF i > Len(this.union) \/ ~isQuery(result) THEN result
    ELSE Query_andQueryFrom(this, Query_andCube(result, this.union[i]), i + 1)

Query_andQuery(this, other_query) ==
    IF ~isQuery(this) \/ ~isQuery(other_query) THEN ErrQuery
    ELSE Query_andQueryFrom(this, other_query, 1)

RECURSIVE Query_containsCubeFrom(_, _, _)
Query_containsCubeFrom(this, cube, i) ==
    IF i > Len(this.union) THEN "F"
    ELSE LET contains_cube == Cube_contains(this.union[i], cube)
         IN  IF contains_cube \in {"T", "N", "E"} THEN contains_cube
             ELSE Query_containsCubeFrom(this, cube, i + 1)

Query_containsCube(this, cube) == Query_containsCubeFrom(this, cube, 1)

RECURSIVE Query_containsQueryFrom(_, _, _)
Query_containsQueryFrom(this, other_query, i) ==
    IF i > Len(other_query.union) THEN "T"
    ELSE LET cube_contained == Query_containsCube(this, other_query.union[i])
         IN  IF cube_contained # "T" THEN cube_contained
             ELSE Query_containsQueryFrom(this, other_query, i + 1)

Query_containsQuery(this, other_query) ==
    IF ~isQuery(this) \/ ~isQuery(other_query) THEN "E"
    ELSE Query_containsQueryFrom(this, other_query, 1)

Query_containsConstraint(this, constraint) ==
    IF ~isQuery(this) THEN "E" ELSE Query_containsCube(this, Cube_new(constraint))

RECURSIVE Query_containsItemFrom(_, _, _)
Query_containsItemFrom(this, item, i) ==
    IF i > Len(this.union) THEN "F"
    ELSE LET contains_item == Cube_containsItem(this.union[i], item)
         IN  IF contains_item \in {"T", "N", "E"} THEN contains_item
             ELSE Query_containsItemFrom(this, item, i + 1)

Query_containsItem(this, item) ==
    IF ~isQuery(this) THEN "E" ELSE Query_containsItemFrom(this, item, 1)

\* get predicate(): item => this.containsItem(item)
Query_predicate(this, item) == Query_containsItem(this, item)

\* unmatched.findIndex(item => constraint.equals(item)) on the array whose
\* indices in deleted are holes: findIndex visits a hole as undefined.
\* The result is the index found, 0 when there is none (JavaScript's -1) and
\* -1 when constraint.equals throws.
RECURSIVE findIndex(_, _, _, _)
findIndex(unmatched, deleted, constraint, i) ==
    IF i > Len(unmatched) THEN 0
    ELSE LET eq == Cube_equals(constraint, IF i \in deleted THEN NullCube ELSE unmatched[i])
         IN  IF eq = "E" THEN -1
             ELSE IF Truthy(eq) THEN i
             ELSE findIndex(unmatched, deleted, constraint, i + 1)

RECURSIVE Query_equalsQueryFrom(_, _, _, _)
Query_equalsQueryFrom(this, unmatched, deleted, i) ==
    IF i > Len(this.union)
    THEN B3(Cardinality((1..Len(unmatched)) \ deleted) = 0)
    ELSE LET index == findIndex(unmatched, deleted, this.union[i], 1)
         IN  IF index = -1 THEN "E"
             ELSE IF index = 0 THEN "F"
             ELSE Query_equalsQueryFrom(this, unmatched, deleted \cup {index}, i + 1)

Query_equalsQuery(this, other_query) ==
    IF ~isQuery(this) \/ ~isQuery(other_query) THEN "E"
    ELSE Query_equalsQueryFrom(this, other_query.union, {}, 1)

\* ----------------------------------------------------------- Query.optimize

\* The two loops of Query.optimize from (i, j) on, union being this.union as
\* the deletions so far have left it: a deleted element reads undefined and
\* the length is unchanged. threw tells that a TypeError ended the call,
\* which happens when this.union[i] is undefined, or when this.union[j] is
\* and a dimension of this.union[i] is looked up in it.
RECURSIVE Query_optimizeFrom(_, _, _)
Query_optimizeFrom(union, i, j) ==
    IF i > Len(union) THEN [after |-> Query(union), threw |-> FALSE]
    ELSE IF j > Len(union) THEN Query_optimizeFrom(union, i + 1, 1)
    ELSE IF ~isCube(union[i]) THEN [after |-> Query(union), threw |-> TRUE]
    ELSE IF ~isCube(union[j])
    THEN IF Len(union[i].dims) = 0 THEN Query_optimizeFrom(union, i, j + 1)
         ELSE [after |-> Query(union), threw |-> TRUE]
    ELSE LET c == Cube_contains(union[i], union[j])
         IN  IF c = "E" THEN [after |-> Query(union), threw |-> TRUE]
             ELSE IF c = "T"
             THEN Query_optimizeFrom([union EXCEPT ![j] = NullCube], i, j + 1)
             ELSE Query_optimizeFrom(union, i, j + 1)

\* this.optimize(): this as the call leaves it.
Query_optimize(this) == Query_optimizeFrom(this.union, 1, 1)

\* --------------------------------------------------------------- Query.bind

\* Cube.bind(parameters): every range bound; the cube is null when a range
\* binds to null.
RECURSIVE Cube_bindFrom(_, _, _)
Cube_bindFrom(dims, parameters, i) ==
    IF i > Len(dims) THEN Cube(dims)
    ELSE LET range == bind(dims[i].r, parameters)
         IN  IF isErr(range) THEN ErrCube
             ELSE IF isNull(range) THEN NullCube
             ELSE Cube_bindFrom([dims EXCEPT ![i].r = range], parameters, i + 1)

Cube_bind(this, parameters) == Cube_bindFrom(this.dims, parameters, 1)

NullQuery == [k |-> "null"]

\* Query.bind(parameters): the bound cubes that are not null, in a new
\* Query, or null when none is left.
Query_bind(this, parameters) ==
    LET bound == [i \in 1..Len(this.union) |-> Cube_bind(this.union[i], parameters)]
        cubes == SelectSeq(bound, isCube)
    IN  IF \E i \in 1..Len(bound) : bound[i] = ErrCube THEN ErrQuery
        ELSE IF Len(cubes) > 0 THEN Query(cubes)
        ELSE NullQuery

\* ------------------------------------------------------------ Query.factor

\* A cube handed over as a constraint object: its properties are ranges.
constraintOf(cube) ==
    [i \in 1..Len(cube.dims) |-> [d |-> cube.dims[i].d, s |-> Rng(cube.dims[i].r)]]

\* The loop of Cube.removeConstraints from property i of constraints on;
\* result is the copy of the cube, from which removeConstraint deletes.  A
\* dimension the copy lacks (TypeError), a range that is not equal and an
\* equals that throws all leave by an exception (ErrCube).
RECURSIVE Cube_removeConstraintsFrom(_, _, _)
Cube_removeConstraintsFrom(result, constraints, i) ==
    IF i > Len(constraints) THEN result
    ELSE LET dimension == constraints[i].d
         IN  IF ~hasKey(result, dimension) THEN ErrCube
             ELSE IF Truthy(Range_equals(rangeOf(result, dimension),
                                         Range_from(constraints[i].s)))
             THEN Cube_removeConstraintsFrom(
                    Cube(SelectSeq(result.dims, LAMBDA e : e.d # dimension)),
                    constraints, i + 1)
             ELSE ErrCube

Cube_removeConstraints(this, constraints) ==
    Cube_removeConstraintsFrom(Cube(this.dims), constraints, 1)

\* A property of the result of factor that is not there.
NoQuery == [k |-> "undefined"]
FactorResult(factored, remainder) == [factored |-> factored, remainder |-> remainder]

\* The loop of Query.factor from cube i on; result and remainder are its
\* local arrays.
RECURSIVE Query_factorFrom(_, _, _, _, _)
Query_factorFrom(this, common, i, result, remainder) ==
    IF i > Len(this.union)
    THEN IF Len(result) = 0 THEN FactorResult(NoQuery, this)
         ELSE IF Len(remainder) = 0 THEN FactorResult(Query(result), NoQuery)
         ELSE FactorResult(Query(result), Query(remainder))
    ELSE LET cube == this.union[i]
             factored_cube == Cube_removeConstraints(cube, common)
         IN  IF isCube(factored_cube)
             THEN Query_factorFrom(this, common, i + 1, Append(result, factored_cube), remainder)
             ELSE Query_factorFrom(this, common, i + 1, result, Append(remainder, cube))

Query_factor(this, common) == Query_factorFrom(this, common, 1, <<>>, <<>>)

\* ------------------------------------------------------ Query.toExpression
\* The formatter is kept abstract: an expression is the tree of the calls
\* made to it.  operExpr(dimension, operator, value), andExpr(...ands) and
\* orExpr(...ors) build its nodes; NoExpr is undefined and ErrExpr stands
\* for a thrown exception.

operExpr(dimension, operator, value) ==
    [e |-> "oper", dimension |-> dimension, operator |-> operator, value |-> value]
andExpr(ands) == [e |-> "and", args |-> ands]
orExpr(ors) == [e |-> "or", args |-> ors]
NoExpr == [e |-> "undefined"]
ErrExpr == [e |-> "error"]

\* The string '*' that Unbounded.toExpression passes as its value.
Star == [str |-> "*"]

RECURSIVE Range_toExpression(_, _)
Range_toExpression(this, dimension) ==
    CASE this.op = "*" -> operExpr(dimension, "=", Star)
      [] this.op \in SimpleOps -> operExpr(dimension, this.op, this.value)
      [] this.op = "between" ->
            andExpr(<<Range_toExpression(this.lower_bound, dimension),
                      Range_toExpression(this.upper_bound, dimension)>>)
      [] this.op = "$and" ->
            andExpr(<<Range_toExpression(this.known_bounds, dimension)>>
                    \o [i \in 1..Len(this.parameters) |->
                            Range_toExpression(boundsOf(this)[i], dimension)])

Cube_toExpression(this) ==
    andExpr([i \in 1..Len(this.dims) |->
                Range_toExpression(this.dims[i].r, this.dims[i].d)])

\* The <<dimension, range>> properties of all cubes, in the order in which
\* the two outer loops of findFactor visit them.
RECURSIVE properties(_, _)
properties(this, i) ==
    IF i > Len(this.union) THEN <<>>
    ELSE this.union[i].dims \o properties(this, i + 1)

\* The loop over the buckets for one property: every bucket of the same
\* dimension whose range equals the property's range is counted up; ok is
\* FALSE when equals throws.
RECURSIVE countIn(_, _, _, _, _)
countIn(constraints, dimension, range, j, match) ==
    IF j > Len(constraints)
    THEN [ok |-> TRUE,
          constraints |->
            IF match THEN constraints
            ELSE Append(constraints, [dimension |-> dimension, count |-> 1, range |-> range])]
    ELSE LET bucket == constraints[j]
             eq == IF bucket.dimension = dimension
                   THEN Range_equals(bucket.range, range) ELSE "F"
         IN  IF eq = "E" THEN [ok |-> FALSE, constraints |-> constraints]
             ELSE IF Truthy(eq)
             THEN countIn([constraints EXCEPT ![j].count = @ + 1],
                          dimension, range, j + 1, TRUE)
             ELSE countIn(constraints, dimension, range, j + 1, match)

RECURSIVE bucketsFrom(_, _, _)
bucketsFrom(props, k, constraints) ==
    IF k > Len(props) THEN [ok |-> TRUE, constraints |-> constraints]
    ELSE LET c == countIn(constraints, props[k].d, props[k].r, 1, FALSE)
         IN  IF c.ok THEN bucketsFrom(props, k + 1, c.constraints) ELSE c

\* filter(count > 1), sort by count descending (a stable sort), shift: the
\* first bucket that has the largest count, when that count is above 1.
firstLargest(constraints) ==
    LET many == SelectSeq(constraints, LAMBDA bucket : bucket.count > 1)
    IN  IF many = <<>> THEN 0
        ELSE CHOOSE j \in 1..Len(many) :
                /\ \A l \in 1..Len(many) : many[l].count <= many[j].count
                /\ \A l \in 1..(j - 1) : many[l].count < many[j].count

NoFactor == [k |-> "undefined"]
ErrFactor == [k |-> "error"]
\* The object { [dimension] : range } that findFactor returns.
Factor(dimension, range) ==
    [k |-> "object", constraints |-> <<[d |-> dimension, s |-> Rng(range)]>>]

\* Query.findFactor: a constraint object with one property, NoFactor
\* (undefined) or ErrFactor when Range.equals throws.
Query_findFactor(this) ==
    LET b0 == bucketsFrom(properties(this, 1), 1, <<>>)
    IN  IF ~b0.ok THEN ErrFactor
        ELSE LET many == SelectSeq(b0.constraints, LAMBDA bucket : bucket.count > 1)
                 j == firstLargest(b0.constraints)
             IN  IF j = 0 THEN NoFactor
                 ELSE Factor(many[j].dimension, many[j].range)

RECURSIVE Query_toExpression(_)

\* formatter called with the sub-expressions args: an exception thrown
\* while an argument is computed leaves the call.
call(node, args) ==
    IF \E i \in 1..Len(args) : args[i] = ErrExpr THEN ErrExpr ELSE node

\* formatter.andExpr(range.toExpression(...), factored.toExpression(...))
factoredExpr(dimension, range, factored) ==
    call(andExpr(<<Range_toExpression(range, dimension), factored>>), <<factored>>)

\* The branch of toExpression taken when findFactor found the factor
\* { [dimension] : range }; fr is the result of this.factor(factor).
factorExpr(dimension, range, fr) ==
    IF fr.factored # NoQuery /\ fr.remainder # NoQuery
    THEN LET ored == <<factoredExpr(dimension, range, Query_toExpression(fr.factored)),
                       Query_toExpression(fr.remainder)>>
         IN  call(orExpr(ored), ored)
    ELSE IF fr.factored # NoQuery
    THEN factoredExpr(dimension, range, Query_toExpression(fr.factored))
    ELSE NoExpr

\* The branch taken for a query of several cubes; factor is the result of
\* this.findFactor().
severalExpr(this, factor) ==
    IF factor = ErrFactor THEN ErrExpr
    ELSE IF factor # NoFactor
    THEN factorExpr(factor.constraints[1].d, factor.constraints[1].s.r,
                    Query_factor(this, factor.constraints))
    ELSE orExpr([i \in 1..Len(this.union) |-> Cube_toExpression(this.union[i])])

Query_toExpression(this) ==
    IF ~isQuery(this) THEN ErrExpr
    ELSE IF Len(this.union) = 1 THEN Cube_toExpression(this.union[1])
    ELSE IF Len(this.union) > 1 THEN severalExpr(this, Query_findFactor(this))
    ELSE NoExpr

\* ----------------------------------------------------------- state machine
\* A session with two queries a and b.  Both start as Query.from of a
\* constraint object; and/or combine them (at most MaxOps times), and
\* contains, equals and containsItem question them.  last records the last
\* operation: its name, receiver, argument and result.  ra and rb are the two
\* ranges of the sessions of ranges further below; the sessions of queries
\* leave them unbounded.

VARIABLES a, b, n, last, ra, rb
vars == <<a, b, n, last, ra, rb>>

Dims == {"x", "y"}
Numbers == {Num(v) : v \in 1..MaxVal}
Values == Numbers \cup {Param(p) : p \in 1..NParams}

\* The constraint values of the sessions: v, $p, [,v], [v,], [lo,hi] with
\* lo < hi, [$p,v] and { "<=" : v }.
Sugars ==
    {Scalar(v) : v \in Values}
    \cup {Arr(Undefined, v) : v \in Numbers}
    \cup {Arr(v, Undefined) : v \in Numbers}
    \cup {Arr(r[1], r[2]) : r \in {t \in Numbers \X Numbers : t[1].v < t[2].v}}
    \cup {Arr(Param(p), Num(MaxVal)) : p \in 1..NParams}
    \cup {Bounds("<=", v) : v \in Numbers}

\* Constraint objects with one property.
Constraints == {<<[d |-> d, s |-> s]>> : d \in Dims, s \in Sugars}

\* The records tested by containsItem.
Items == [Dims -> Numbers]

NoOp == [op |-> "none"]
Op(op, recv, arg, out) == [op |-> op, recv |-> recv, arg |-> arg, out |-> out]

Init ==
    /\ a \in {Query_from(k) : k \in Constraints}
    /\ b \in {Query_from(k) : k \in Constraints}
    /\ n = 0
    /\ last = NoOp
    /\ ra = Unbounded /\ rb = Unbounded

\* a = a.or(b)
OrAB ==
    /\ n < MaxOps /\ isQuery(a) /\ isQuery(b)
    /\ a' = Query_orQuery(a, b)
    /\ last' = Op("or", a, b, a')
    /\ n' = n + 1 /\ UNCHANGED <<b, ra, rb>>

\* a = a.and(b)
AndAB ==
    /\ n < MaxOps /\ isQuery(a) /\ isQuery(b)
    /\ a' = Query_andQuery(a, b)
    /\ last' = Op("and", a, b, a')
    /\ n' = n + 1 /\ UNCHANGED <<b, ra, rb>>

\* b = b.or(a)
OrBA ==
    /\ n < MaxOps /\ isQuery(a) /\ isQuery(b)
    /\ b' = Query_orQuery(b, a)
    /\ last' = Op("or", b, a, b')
    /\ n' = n + 1 /\ UNCHANGED <<a, ra, rb>>

\* b = b.and(a)
AndBA ==
    /\ n < MaxOps /\ isQuery(a) /\ isQuery(b)
    /\ b' = Query_andQuery(b, a)
    /\ last' = Op("and", b, a, b')
    /\ n' = n + 1 /\ UNCHANGED <<a, ra, rb>>

\* a.contains(b)
ContainsAB ==
    /\ isQuery(a) /\ isQuery(b)
    /\ last' = Op("contains", a, b, Query_containsQuery(a, b))
    /\ UNCHANGED <<a, b, n, ra, rb>>

\* a.equals(b)
EqualsAB ==
    /\ isQuery(a) /\ isQuery(b)
    /\ last' = Op("equals", a, b, Query_equalsQuery(a, b))
    /\ UNCHANGED <<a, b, n, ra, rb>>

\* items.filter(a.predicate): the result for every record
PredicateA ==
    /\ isQuery(a)
    /\ last' = Op("predicate", a, NoOp, [item \in Items |-> Query_predicate(a, item)])
    /\ UNCHANGED <<a, b, n, ra, rb>>

\* a.factor(f), f being a cube of b handed over as a constraint object
FactorAB ==
    /\ isQuery(a) /\ isQuery(b)
    /\ \E i \in 1..Len(b.union) :
          last' = Op("factor", a, constraintOf(b.union[i]),
                     Query_factor(a, constraintOf(b.union[i])))
    /\ UNCHANGED <<a, b, n, ra, rb>>

\* cube.contains(other) on a cube of a and a cube of b, with the Cube class
\* of src/src/cube.js (src) and with the Cube class the queries use (query)
CubeContainsAB ==
    /\ isQuery(a) /\ isQuery(b)
    /\ \E i \in 1..Len(a.union), j \in 1..Len(b.union) :
          last' = Op("Cube.contains", a.union[i], b.union[j],
                     [src |-> Cube_containsSrc(a.union[i], b.union[j]),
                      query |-> Cube_contains(a.union[i], b.union[j])])
    /\ UNCHANGED <<a, b, n, ra, rb>>

Next ==
    \/ CubeContainsAB
    \/ FactorAB
    \/ OrAB
    \/ AndAB
    \/ OrBA
    \/ AndBA
    \/ ContainsAB
    \/ EqualsAB
    \/ PredicateA

Spec == Init /\ [][Next]_vars

\* ------------------------------------------------- a session of one query
\* One query a is built from constraint objects with one or two properties:
\* Query.from, then or and and with further constraint objects (at most
\* MaxOps times); toExpression renders it and last holds the rendering.

ExprValues == {Num(v) : v \in 1..ExprMaxVal} \cup {Param(p) : p \in 1..ExprParams}

ExprConstraints ==
    {<<[d |-> d, s |-> Scalar(v)]>> : d \in Dims, v \in ExprValues}
    \cup {<<[d |-> "x", s |-> Scalar(v)], [d |-> "y", s |-> Scalar(w)]>> :
            v \in ExprValues, w \in ExprValues}

ExprInit ==
    /\ a \in {Query_from(k) : k \in ExprConstraints}
    /\ b = Query(<<>>)
    /\ n = 0
    /\ last = NoOp
    /\ ra = Unbounded /\ rb = Unbounded

\* a = a.or(k)
OrK ==
    /\ n < MaxOps /\ isQuery(a)
    /\ \E k \in ExprConstraints : a' = Query_orConstraint(a, k)
    /\ last' = NoOp
    /\ n' = n + 1 /\ UNCHANGED <<b, ra, rb>>

\* a = a.and(k)
AndK ==
    /\ n < MaxOps /\ isQuery(a)
    /\ \E k \in ExprConstraints : a' = Query_andConstraint(a, k)
    /\ last' = NoOp
    /\ n' = n + 1 /\ UNCHANGED <<b, ra, rb>>

\* a.toExpression(formatter)
ToExpressionA ==
    /\ isQuery(a)
    /\ last' = Op("toExpression", a, NoOp, Query_toExpression(a))
    /\ UNCHANGED <<a, b, n, ra, rb>>

ExprNext ==
    \/ OrK
    \/ AndK
    \/ ToExpressionA

ExprSpec == ExprInit /\ [][ExprNext]_vars

\* ------------------------------------------------------ a session of ranges
\* Two ranges ra and rb are made by Range.from of two constraint values
\* (last holds the two values).  intersect combines them (at most MaxOps
\* times), bind binds the parameters of both, and contains and equals
\* question them.  The number 0 is among the values: it stands for the
\* falsy scalars.

RangeNumbers == {Num(v) : v \in 0..RangeMaxVal}
RangeValues == RangeNumbers \cup {Param(p) : p \in 1..NParams}

\* v, $p, { op : v }, [lo, hi] with lo < hi, [, v], [v, ], [$p, v], [v, $p].
RangeSugars ==
    {Scalar(v) : v \in RangeValues}
    \cup {Bounds(op, v) : op \in SimpleOps, v \in RangeValues}
    \cup {Arr(t[1], t[2]) : t \in {u \in RangeNumbers \X RangeNumbers : u[1].v < u[2].v}}
    \cup {Arr(Undefined, v) : v \in RangeNumbers}
    \cup {Arr(v, Undefined) : v \in RangeNumbers}
    \cup {Arr(Param(p), Num(RangeMaxVal)) : p \in 1..NParams}
    \cup {Arr(Num(1), Param(p)) : p \in 1..NParams}

\* The parameter objects given to bind: a value for every parameter.
Environments == [1..NParams -> RangeNumbers]

RangeInit ==
    /\ \E g \in RangeSugars, h \in RangeSugars :
            /\ ra = Range_from(g)
            /\ rb = Range_from(h)
            /\ last = Op("from", g, h, <<Range_from(g), Range_from(h)>>)
    /\ a = Query(<<>>) /\ b = Query(<<>>)
    /\ n = 0

\* ra = ra.intersect(rb)
IntersectAB ==
    /\ n < RangeOps /\ isRange(ra) /\ isRange(rb)
    /\ ra' = intersect(ra, rb, MaxDepth)
    /\ last' = Op("intersect", ra, rb, ra')
    /\ n' = n + 1 /\ UNCHANGED <<a, b, rb>>

\* rb = rb.intersect(ra)
IntersectBA ==
    /\ n < RangeOps /\ isRange(ra) /\ isRange(rb)
    /\ rb' = intersect(rb, ra, MaxDepth)
    /\ last' = Op("intersect", rb, ra, rb')
    /\ n' = n + 1 /\ UNCHANGED <<a, b, ra>>

\* ra = ra.bind(parameters), rb = rb.bind(parameters)
BindAB ==
    /\ n < RangeOps /\ isRange(ra) /\ isRange(rb)
    /\ \E parameters \in Environments :
            /\ ra' = bind(ra, parameters)
            /\ rb' = bind(rb, parameters)
            /\ last' = Op("bind", <<ra, rb>>, parameters, <<ra', rb'>>)
    /\ n' = n + 1 /\ UNCHANGED <<a, b>>

\* ra.contains(rb), ra.contains(ra)
RangeContainsAB ==
    /\ isRange(ra) /\ isRange(rb)
    /\ \E range \in {ra, rb} : last' = Op("contains", ra, range, contains(ra, range))
    /\ UNCHANGED <<a, b, n, ra, rb>>

\* ra.equals(rb), ra.equals(ra)
RangeEqualsAB ==
    /\ isRange(ra) /\ isRange(rb)
    /\ \E range \in {ra, rb} : last' = Op("equals", ra, range, Range_equals(ra, range))
    /\ UNCHANGED <<a, b, n, ra, rb>>

RangeNext ==
    \/ IntersectAB
    \/ IntersectBA
    \/ BindAB
    \/ RangeContainsAB
    \/ RangeEqualsAB

RangeSpec == RangeInit /\ [][RangeNext]_vars

\* ------------------------------------------------------ or and optimize
\* One query a built by Query.from and grown by or-ing constraint objects,
\* and optimized in place.

OrInit ==
    /\ a \in {Query_from(k) : k \in Constraints}
    /\ b = Query(<<>>)
    /\ n = 0
    /\ last = NoOp
    /\ ra = Unbounded /\ rb = Unbounded

\* Every element of this.union is a cube: none has been deleted.
Intact(q) == \A i \in 1..Len(q.union) : isCube(q.union[i])

\* a = a.or(k); iterating over a deleted element calls contains on undefined
OrConstraintA ==
    /\ n < MaxOps /\ isQuery(a)
    /\ \E k \in Constraints :
            /\ a' = IF Intact(a) THEN Query_orConstraint(a, k) ELSE ErrQuery
            /\ last' = Op("or", a, k, a')
    /\ n' = n + 1 /\ UNCHANGED <<b, ra, rb>>

\* a.optimize()
OptimizeA ==
    /\ isQuery(a)
    /\ a' = Query_optimize(a).after
    /\ last' = Op("optimize", a, NoOp, Query_optimize(a))
    /\ UNCHANGED <<b, n, ra, rb>>

OrNext ==
    \/ OrConstraintA
    \/ OptimizeA

OrSpec == OrInit /\ [][OrNext]_vars

\* ------------------------------------------------ ranges of different kinds
\* ra and rb are scalar ranges, Range.has(range) or Range.subquery(query),
\* and are intersected and bound.

MixedQueries ==
    {Query_from(<<[d |-> "x", s |-> g]>>) :
        g \in {Scalar(v) : v \in RangeValues \ {Num(0)}}
               \cup {Arr(Param(p), Num(RangeMaxVal)) : p \in 1..NParams}}

MixedRanges ==
    LET simple == {x \in {Range_from(g) : g \in RangeSugars} : isRange(x)}
        equal == {x \in simple : x.op = "=" /\ isParam(x.value)}
        other == {x \in simple : x.op \in SimpleOps /\ isParam(x.value)}
    IN  simple
        \cup {y \in {intersect(t[1], t[2], MaxDepth) : t \in equal \X other} : y.op = "$and"}
        \cup {HasElementMatching(x) : x \in simple}
        \cup {Subquery(q) : q \in MixedQueries}

\* Two ranges of which one at least is a HasElementMatching or a Subquery
\* range (RangeSpec has the sessions of two scalar ranges).
MixedInit ==
    /\ ra \in MixedRanges
    /\ rb \in MixedRanges
    /\ ra.op \in {"has", "contains"} \/ rb.op \in {"has", "contains"}
    /\ last = NoOp
    /\ a = Query(<<>>) /\ b = Query(<<>>)
    /\ n = 0

MixedNext ==
    \/ IntersectAB
    \/ IntersectBA
    \/ BindAB

MixedSpec == MixedInit /\ [][MixedNext]_vars

\* -------------------------------------------------------------- properties
\* The properties below speak of the two queries a and b of a session and,
\* where an operation takes one more argument, of every query that
\* Query.from makes of a constraint object.

\* A cube with the order of its properties forgotten.
AsSet(cube) == {<<cube.dims[i].d, cube.dims[i].r>> : i \in 1..Len(cube.dims)}
CubeSet(q) == {AsSet(q.union[i]) : i \in 1..Len(q.union)}

\* The pairs (i, j) of a cube of t and a cube of o.
PairsOf(t, o) == (1..Len(t.union)) \X (1..Len(o.union))

\* The non-empty intersections of a cube of t with a cube of o, taken as
\* and takes them (the cube of o is the receiver of Cube.intersect).
Pairwise(t, o) ==
    {AsSet(Cube_intersect(o.union[p[2]], t.union[p[1]])) :
        p \in {pp \in PairsOf(t, o) :
                isCube(Cube_intersect(o.union[pp[2]], t.union[pp[1]]))}}

NoPairThrows(t, o) ==
    \A p \in PairsOf(t, o) : Cube_intersect(o.union[p[2]], t.union[p[1]]) # ErrCube

\* C1: a.and(o), o a query, holds exactly the non-empty intersections of a
\* cube of a with a cube of o, one for every satisfiable pair.
C1_AndKeepsEveryPair ==
    \A k \in Constraints :
        LET o == Query_from(k)
            out == Query_andQuery(a, o)
        IN  (isQuery(a) /\ isQuery(out) /\ NoPairThrows(a, o))
                => CubeSet(out) = Pairwise(a, o)

\* The positions of the cubes of q that contain c, and of those c contains.
Containing(q, c) == {i \in 1..Len(q.union) : Truthy(Cube_contains(q.union[i], c))}
ContainedIn(q, c) == {i \in 1..Len(q.union) : Truthy(Cube_contains(c, q.union[i]))}

\* The cubes of q with those at the positions of S replaced by c, each at
\* its own place.
ReplacedEach(q, c, S) ==
    [i \in 1..Len(q.union) |-> IF i \in S THEN c ELSE q.union[i]]

\* The cubes of q with those at the positions of S replaced by one c, at the
\* place of the first of them.
RECURSIVE ReplacedOnceFrom(_, _, _, _)
ReplacedOnceFrom(q, c, S, i) ==
    IF i > Len(q.union) THEN <<>>
    ELSE (IF i \notin S THEN <<q.union[i]>>
          ELSE IF \A j \in S : i <= j THEN <<c>>
          ELSE <<>>) \o ReplacedOnceFrom(q, c, S, i + 1)

\* The unions the absorption rule allows for q.or(c).
OrRule(q, c) ==
    IF Containing(q, c) # {} THEN {q.union}
    ELSE IF ContainedIn(q, c) # {}
    THEN {ReplacedEach(q, c, ContainedIn(q, c)),
          ReplacedOnceFrom(q, c, ContainedIn(q, c), 1)}
    ELSE {Append(q.union, c)}

\* C2: a.or(c) for one cube c leaves the union unchanged when a cube of a
\* contains c, otherwise replaces the cubes that c contains by c, otherwise
\* appends c; the other cubes keep their order.
C2_OrAbsorbs ==
    \A k \in Constraints :
        LET c == Cube_new(k)
            out == Query_orCube(a, c)
        IN  (isQuery(a) /\ isQuery(out)) => out.union \in OrRule(a, c)

\* Every cube of arg is contained, with the result true, by a cube of q at
\* some position.
EveryCubeHasWitness(q, arg) ==
    \A j \in 1..Len(arg.union) :
        \E i \in 1..Len(q.union) : Cube_contains(q.union[i], arg.union[j]) = "T"

\* Some cube of arg has no such cube in q.
SomeCubeUnwitnessed(q, arg) ==
    \E j \in 1..Len(arg.union) :
        \A i \in 1..Len(q.union) : Cube_contains(q.union[i], arg.union[j]) # "T"

\* Some containment of a cube of arg by a cube of q is unknown.
SomeIndeterminate(q, arg) ==
    \E j \in 1..Len(arg.union) :
        \E i \in 1..Len(q.union) : Cube_contains(q.union[i], arg.union[j]) = "N"

Matchable(q, r) ==
    /\ Len(q.union) = Len(r.union)
    /\ \E f \in [1..Len(q.union) -> 1..Len(r.union)] :
            /\ \A i, j \in 1..Len(q.union) : f[i] = f[j] => i = j
            /\ \A i \in 1..Len(q.union) : Cube_equals(q.union[i], r.union[f[i]]) = "T"

\* C4: for q and r among a and b, q.equals(r) is true exactly when the cubes
\* of q can be matched one-to-one with those of r, whatever their order.
C4_EqualsIgnoresOrder ==
    (isQuery(a) /\ isQuery(b)) =>
        \A q \in {a, b} : \A r \in {a, b} :
            (Query_equalsQuery(q, r) = "T") <=> Matchable(q, r)

\* The value v satisfies the concrete range.
RECURSIVE Satisfies(_, _)
Satisfies(range, v) ==
    CASE range.op = "*" -> TRUE
      [] range.op = "=" -> v = range.value.v
      [] range.op = "<" -> v < range.value.v
      [] range.op = "<=" -> v <= range.value.v
      [] range.op = ">" -> v > range.value.v
      [] range.op = ">=" -> v >= range.value.v
      [] range.op = "between" ->
            Satisfies(range.lower_bound, v) /\ Satisfies(range.upper_bound, v)

ConcreteBound(range) == isSimple(range) /\ ~isParam(range.value)
ConcreteRange(range) ==
    \/ range.op = "*"
    \/ ConcreteBound(range)
    \/ /\ range.op = "between"
       /\ ConcreteBound(range.lower_bound) /\ ConcreteBound(range.upper_bound)
ConcreteQuery(q) ==
    \A i \in 1..Len(q.union) :
        \A j \in 1..Len(q.union[i].dims) : ConcreteRange(q.union[i].dims[j].r)

\* The record satisfies the range of every dimension of some cube of q.
Accepts(q, item) ==
    \E i \in 1..Len(q.union) :
        \A j \in 1..Len(q.union[i].dims) :
            /\ q.union[i].dims[j].d \in DOMAIN item
            /\ Satisfies(q.union[i].dims[j].r, item[q.union[i].dims[j].d].v)

\* C5: on a query with concrete constraints, predicate(item) is true when
\* the record satisfies every range of some cube and false otherwise, for
\* equality, single-bound and two-sided ranges alike.
C5_PredicateAccepts ==
    (isQuery(a) /\ ConcreteQuery(a)) =>
        \A item \in Items : Query_predicate(a, item) = B3(Accepts(a, item))

\* C6: a.and(b).equals(b.and(a)) is true.
C6_AndCommutes ==
    (isQuery(a) /\ isQuery(b)) =>
        Query_equalsQuery(Query_andQuery(a, b), Query_andQuery(b, a)) = "T"

\* C7: a.or(o).equals(o.or(a)) is true, for every query o.
C7_OrCommutes ==
    \A k \in Constraints :
        LET o == Query_from(k)
        IN  isQuery(a) =>
                Query_equalsQuery(Query_orQuery(a, o), Query_orQuery(o, a)) = "T"

\* C8: a.or(a.and(b)).equals(a) is true.
C8_Absorption ==
    (isQuery(a) /\ isQuery(b)) =>
        Query_equalsQuery(Query_orQuery(a, Query_andQuery(a, b)), a) = "T"

C10_AndDistributesOverOr ==
    \A k \in Constraints :
        LET c == Query_from(k)
        IN  (isQuery(a) /\ isQuery(b)) =>
                Query_equalsQuery(
                    Query_andQuery(Query_orQuery(a, b), c),
                    Query_orQuery(Query_andQuery(a, c), Query_andQuery(b, c))) = "T"

\* ------------------------------------------------------------ the failing
\* inputs, as states of a session
\* The constraint object { d : s } and the cube and query made of it.
One(d, s) == <<[d |-> d, s |-> s]>>
CubeOf(d, s) == Cube_new(One(d, s))
QueryOf(d, s) == Query_from(One(d, s))

\* a is Query.from({x:1}).or({x:2}); and-ed with Query.from({y:1}) its union
\* is empty although both pairs are satisfiable.
C1_TwoCubesAndedToNothing ==
    /\ a = Query(<<CubeOf("x", Scalar(Num(1))), CubeOf("x", Scalar(Num(2)))>>)
    /\ Query_andQuery(a, QueryOf("y", Scalar(Num(1)))) = Query(<<>>)
    /\ Cardinality(Pairwise(a, QueryOf("y", Scalar(Num(1))))) = 2

\* a has the cubes {y=1,x=1} and {x=1}; a.or({x:1}) replaces the first
\* although the second contains the incoming cube.
C2_ContainedCubeSeenFirst ==
    /\ isQuery(a) /\ Len(a.union) = 2
    /\ AsSet(a.union[1]) = AsSet(CubeOf("x", Scalar(Num(1))))
                            \cup AsSet(CubeOf("y", Scalar(Num(1))))
    /\ a.union[2] = CubeOf("x", Scalar(Num(1)))
    /\ Query_orCube(a, CubeOf("x", Scalar(Num(1)))) =
            Query(<<CubeOf("x", Scalar(Num(1))), CubeOf("x", Scalar(Num(1)))>>)

C4_SameOrderThrows ==
    /\ a = Query(<<CubeOf("x", Scalar(Num(1))), CubeOf("y", Scalar(Num(1)))>>)
    /\ Matchable(a, a)
    /\ Query_equalsQuery(a, a) = "E"

\* a is Query.from({x:[1,2]}): its predicate throws for every record.
C5_BetweenPredicateThrows ==
    /\ a = QueryOf("x", Arr(Num(1), Num(2)))
    /\ \A item \in Items : Query_predicate(a, item) = "E"
    /\ \E item \in Items : Accepts(a, item)

\* a is [{x=1}, {x=2}] and b is [{x=2}]: a.and(b) is empty, b.and(a) is b.
C6_AndDependsOnReceiver ==
    /\ a = Query(<<CubeOf("x", Scalar(Num(1))), CubeOf("x", Scalar(Num(2)))>>)
    /\ b = QueryOf("x", Scalar(Num(2)))
    /\ Query_andQuery(a, b) = Query(<<>>)
    /\ Query_andQuery(b, a) = b
    /\ Query_equalsQuery(Query_andQuery(a, b), Query_andQuery(b, a)) = "F"

\* a is [{x=1}, {x<1}]: a.or({x<2}) holds {x<2} twice, {x<2}.or(a) once.
C7_OrDuplicatesCube ==
    /\ a = Query(<<CubeOf("x", Scalar(Num(1))), CubeOf("x", Arr(Undefined, Num(1)))>>)
    /\ LET o == QueryOf("x", Arr(Undefined, Num(2)))
       IN  /\ Query_orQuery(a, o) = Query(<<o.union[1], o.union[1]>>)
           /\ Query_orQuery(o, a) = o
           /\ Query_equalsQuery(Query_orQuery(o, a), Query_orQuery(a, o)) = "F"
           /\ Query_equalsQuery(Query_orQuery(a, o), Query_orQuery(o, a)) = "E"

\* a is [{x=1}] and b is [{x=$1}]: a.and(b) is not absorbed by a.
C8_IntersectionNotAbsorbed ==
    /\ a = QueryOf("x", Scalar(Num(1)))
    /\ b = QueryOf("x", Scalar(Param(1)))
    /\ Len(Query_orQuery(a, Query_andQuery(a, b)).union) = 2
    /\ Query_equalsQuery(Query_orQuery(a, Query_andQuery(a, b)), a) # "T"

C10_LeftSideEmpty ==
    /\ a = QueryOf("x", Scalar(Num(1)))
    /\ b = QueryOf("x", Scalar(Num(2)))
    /\ LET c == QueryOf("y", Scalar(Num(1)))
       IN  /\ Query_andQuery(Query_orQuery(a, b), c) = Query(<<>>)
           /\ Len(Query_orQuery(Query_andQuery(a, c), Query_andQuery(b, c)).union) = 2
           /\ Query_equalsQuery(
                Query_andQuery(Query_orQuery(a, b), c),
                Query_orQuery(Query_andQuery(a, c), Query_andQuery(b, c))) = "F"

\* ------------------------------------------------------------------ factor
\* The cube matches the factor f: it holds every dimension of f with the
\* very range f gives.
Matches(cube, f) ==
    \A j \in 1..Len(f) :
        hasKey(cube, f[j].d) /\ rangeOf(cube, f[j].d) = Range_from(f[j].s)

\* The cube without the dimensions of f.
Without(cube, f) ==
    Cube(SelectSeq(cube.dims, LAMBDA e : \A j \in 1..Len(f) : f[j].d # e.d))

\* The cubes of q that match f, each without the dimensions of f, and the
\* cubes that do not match, both in the order of q; a part without cubes is
\* absent.
FactoredPart(q, f) ==
    LET m == SelectSeq(q.union, LAMBDA c : Matches(c, f))
    IN  IF m = <<>> THEN NoQuery ELSE Query([i \in 1..Len(m) |-> Without(m[i], f)])
RemainderPart(q, f) ==
    LET m == SelectSeq(q.union, LAMBDA c : ~Matches(c, f))
    IN  IF m = <<>> THEN NoQuery ELSE Query(m)

\* C11: a.factor(f) puts every cube that matches f, without f's dimensions,
\* into factored and every other cube unchanged into remainder, both in
\* order, and a part without cubes is absent.
C11_FactorPartitions ==
    (isQuery(a) /\ isQuery(b)) =>
        \A i \in 1..Len(b.union) :
            LET f == constraintOf(b.union[i])
            IN  Query_factor(a, f) = FactorResult(FactoredPart(a, f), RemainderPart(a, f))

\* a is the one cube {x = 1 and $1} that a.and(b) made, b holds the same
\* cube: the cube matches the factor, and a.factor of it leaves the cube in
\* remainder and factors nothing.
C11_OwnFactorNotRemoved ==
    /\ isQuery(a) /\ isQuery(b) /\ Len(a.union) = 1 /\ Len(b.union) = 2
    /\ a.union[1] = b.union[2]
    /\ hasKey(a.union[1], "x")
    /\ rangeOf(a.union[1], "x") =
            Intersection(Equals(Num(1)), (1 :> Equals(Param(1))), <<1>>)
    /\ Matches(a.union[1], constraintOf(b.union[2]))
    /\ Query_factor(a, constraintOf(b.union[2])) = FactorResult(NoQuery, a)

\* ------------------------------------------------------------ toExpression
\* The number of cubes of q that hold dimension d with the very range r.
SharedBy(q, d, r) ==
    Cardinality({i \in 1..Len(q.union) :
                    hasKey(q.union[i], d) /\ rangeOf(q.union[i], d) = r})

\* The factor of q: the first property, in the order of the cubes and of
\* their dimensions, among those shared by the most cubes, at least two.
\* 0 when no property is shared.
FactorIndex(q) ==
    LET props == properties(q, 1)
        shared(k) == SharedBy(q, props[k].d, props[k].r)
        best == {k \in 1..Len(props) :
                    shared(k) >= 2 /\ \A l \in 1..Len(props) : shared(l) <= shared(k)}
    IN  IF best = {} THEN 0 ELSE CHOOSE k \in best : \A l \in best : k <= l

\* The rendering of q: a cube is the and of its dimensions' range
\* expressions; several cubes with a factor F are
\* or(and(F, factored), remainder), or and(F, factored) when there is no
\* remainder; several cubes without a factor are the or of the cubes.
RECURSIVE Rendering(_)
Rendering(q) ==
    IF Len(q.union) = 1 THEN Cube_toExpression(q.union[1])
    ELSE IF FactorIndex(q) = 0
    THEN orExpr([i \in 1..Len(q.union) |-> Cube_toExpression(q.union[i])])
    ELSE LET F == properties(q, 1)[FactorIndex(q)]
             f == <<[d |-> F.d, s |-> Rng(F.r)]>>
             anded == andExpr(<<Range_toExpression(F.r, F.d),
                                Rendering(FactoredPart(q, f))>>)
         IN  IF RemainderPart(q, f) = NoQuery THEN anded
             ELSE orExpr(<<anded, Rendering(RemainderPart(q, f))>>)

\* An expression as the sequence of the conjunctions it is the or of, each
\* conjunction being the set of its operator expressions.
RECURSIVE Expand(_)
RECURSIVE ExpandAll(_, _, _)
Both(s, t) ==
    [k \in 1..(Len(s) * Len(t)) |->
        s[((k - 1) \div Len(t)) + 1] \cup t[((k - 1) % Len(t)) + 1]]
ExpandAll(args, i, isAnd) ==
    IF i > Len(args) THEN (IF isAnd THEN <<{}>> ELSE <<>>)
    ELSE IF isAnd THEN Both(Expand(args[i]), ExpandAll(args, i + 1, isAnd))
    ELSE Expand(args[i]) \o ExpandAll(args, i + 1, isAnd)
Expand(e) ==
    CASE e.e = "oper" -> <<{e}>>
      [] e.e = "and" -> ExpandAll(e.args, 1, TRUE)
      [] e.e = "or" -> ExpandAll(e.args, 1, FALSE)
      [] OTHER -> <<>>

Occurrences(s, x) == Cardinality({i \in 1..Len(s) : s[i] = x})

\* The expression e holds every cube of q exactly once.
EachCubeOnce(q, e) ==
    LET cubes == [i \in 1..Len(q.union) |-> Expand(Cube_toExpression(q.union[i]))[1]]
        ors == Expand(e)
    IN  /\ Len(ors) = Len(cubes)
        /\ \A i \in 1..Len(cubes) : Occurrences(ors, cubes[i]) = Occurrences(cubes, cubes[i])

\* C12: a.toExpression is the rendering above (one cube: its and; a factor:
\* or(and(F, factored), remainder); no factor: the or of the cubes), it holds
\* every cube of a exactly once, and a second call gives the same.
C12_RendersEachCubeOnce ==
    (isQuery(a) /\ Len(a.union) >= 1) =>
        /\ Query_toExpression(a) = Rendering(a)
        /\ EachCubeOnce(a, Query_toExpression(a))
        /\ last.op = "toExpression" /\ last.recv = a => last.out = Query_toExpression(a)

\* a is Query.from({x:1,y:2}).or({x:1,y:1}).and({x:$1}): both cubes hold
\* x = 1 and $1.  The rendering is and(x, or(y = 2, y = 1)) and holds both
\* cubes once; a.toExpression throws.
C12_SharedIntersectionThrows ==
    /\ isQuery(a) /\ Len(a.union) = 2
    /\ \A i \in 1..2 :
        /\ hasKey(a.union[i], "x")
        /\ rangeOf(a.union[i], "x") =
                Intersection(Equals(Num(1)), (1 :> Equals(Param(1))), <<1>>)
    /\ Rendering(a).e = "and"
    /\ EachCubeOnce(a, Rendering(a))
    /\ last = Op("toExpression", a, NoOp, ErrExpr)

\* -------------------------------------------------------------- Range.from
\* What Range.from is to make of the constraint value g: Equals(v) of a
\* concrete scalar v; of [lo, hi] with concrete lo < hi the Between of
\* GreaterThanOrEqual(lo) and LessThan(hi); LessThan(hi) of [, hi] and
\* GreaterThanOrEqual(lo) of [lo, ].  Other values are not spoken of.
Concrete(v) == ~isUndefined(v) /\ ~isParam(v)
SugarInScope(g) ==
    \/ g.s = "scalar" /\ Concrete(g.v)
    \/ g.s = "array" /\ Concrete(g.lo) /\ Concrete(g.hi) /\ g.lo.v < g.hi.v
    \/ g.s = "array" /\ isUndefined(g.lo) /\ Concrete(g.hi)
    \/ g.s = "array" /\ Concrete(g.lo) /\ isUndefined(g.hi)
Desugared(g) ==
    IF g.s = "scalar" THEN Equals(g.v)
    ELSE IF isUndefined(g.lo) THEN LessThan(g.hi)
    ELSE IF isUndefined(g.hi) THEN GreaterThanOrEqual(g.lo)
    ELSE Between(GreaterThanOrEqual(g.lo), LessThan(g.hi))

\* C13: Range.from of a concrete scalar v, 0 included, is Equals(v); of
\* [lo, hi] with lo < hi it is Between(>= lo, < hi); of [, hi] it is
\* LessThan(hi) and of [lo, ] GreaterThanOrEqual(lo).
C13_FromSugar ==
    last.op = "from" =>
        /\ SugarInScope(last.recv) => last.out[1] = Desugared(last.recv)
        /\ SugarInScope(last.arg) => last.out[2] = Desugared(last.arg)

\* Range.from(0) has been called and has handed back the number 0, which is
\* no range; Range.from([0, 2]) has made LessThan(2).
C13_ZeroIsNoRange ==
    /\ last.op = "from"
    /\ last.recv = Scalar(Num(0)) /\ last.out[1] = NotARange(Num(0)) /\ ra = NotARange(Num(0))
    /\ last.arg = Arr(Num(0), Num(2)) /\ last.out[2] = LessThan(Num(2)) /\ rb = LessThan(Num(2))

\* --------------------------------------------------------- Range.intersect
\* The values between the bounds count too: a range is tested at t / 2 for
\* the integers t of TestPoints, that is below, at, between and above all
\* bound values.
TestPoints == (0 - 1)..(2 * RangeMaxVal + 1)
RECURSIVE Holds(_, _)
Holds(range, t) ==
    CASE range.op = "*" -> TRUE
      [] range.op = "=" -> t = 2 * range.value.v
      [] range.op = "<" -> t < 2 * range.value.v
      [] range.op = "<=" -> t <= 2 * range.value.v
      [] range.op = ">" -> t > 2 * range.value.v
      [] range.op = ">=" -> t >= 2 * range.value.v
      [] range.op = "between" -> Holds(range.lower_bound, t) /\ Holds(range.upper_bound, t)

\* The points of both ranges.
Common(x, y) == {t \in TestPoints : Holds(x, t) /\ Holds(y, t)}

\* x as one of Equals, the four single bounds and Between, on numbers.
ConcreteScalar(x) == isRange(x) /\ x.op # "*" /\ ConcreteRange(x)

\* C14: for concrete ranges ra and rb, ra.intersect(rb) is null exactly when
\* no value is in both, and otherwise is a range that holds exactly the
\* values that are in both.
C14_IntersectIsMeet ==
    (ConcreteScalar(ra) /\ ConcreteScalar(rb)) =>
        LET out == intersect(ra, rb, MaxDepth)
        IN  /\ isNull(out) <=> Common(ra, rb) = {}
            /\ ~isNull(out) =>
                    /\ ConcreteScalar(out)
                    /\ \A t \in TestPoints : Holds(out, t) <=> t \in Common(ra, rb)

\* [1, 2) has been intersected with Equals(1): the value 1 is in both and
\* the result is null.
C14_BetweenLosesEquals ==
    /\ last = Op("intersect", Between(GreaterThanOrEqual(Num(1)), LessThan(Num(2))),
                 Equals(Num(1)), NullRange)
    /\ ra = NullRange /\ rb = Equals(Num(1))
    /\ 2 \in Common(last.recv, last.arg)

\* Two ranges are the same range: the same class with the same bounds in
\* the same positions; an Intersection with the same known bounds and the
\* same bounds for the same parameters, in whatever order they were added.
RECURSIVE SameRange(_, _)
SameRange(x, y) ==
    /\ x.op = y.op
    /\ CASE x.op = "between" ->
                /\ SameRange(x.lower_bound, y.lower_bound)
                /\ SameRange(x.upper_bound, y.upper_bound)
          [] x.op = "$and" ->
                /\ SameRange(x.known_bounds, y.known_bounds)
                /\ DOMAIN x.parametrized_bounds = DOMAIN y.parametrized_bounds
                /\ \A p \in DOMAIN x.parametrized_bounds :
                        SameRange(x.parametrized_bounds[p], y.parametrized_bounds[p])
          [] OTHER -> x = y

\* Two results of intersect are the same: both null, or the same range.
SameResult(x, y) ==
    \/ isNull(x) /\ isNull(y)
    \/ isRange(x) /\ isRange(y) /\ SameRange(x, y)

\* C15: ra.intersect(rb) and rb.intersect(ra) are both null or are the same
\* range, with the same bounds in the same positions.
C15_IntersectCommutes ==
    (isRange(ra) /\ isRange(rb)) =>
        SameResult(intersect(ra, rb, MaxDepth), intersect(rb, ra, MaxDepth))

\* >= 1 has been intersected with <= 2: the result holds <= 2 as its lower
\* and >= 1 as its upper bound, and the other order gives the bounds in
\* their places.
C15_BoundsSwapped ==
    /\ last = Op("intersect", GreaterThanOrEqual(Num(1)), LessThanOrEqual(Num(2)),
                 Between(LessThanOrEqual(Num(2)), GreaterThanOrEqual(Num(1))))
    /\ ra = last.out /\ rb = LessThanOrEqual(Num(2))
    /\ intersect(last.arg, last.recv, MaxDepth) =
            Between(GreaterThanOrEqual(Num(1)), LessThanOrEqual(Num(2)))

\* ------------------------------------------------------------------- C16

SameParam(x, y) == isParam(x) /\ isParam(y) /\ x.v = y.v
SomeParam(x, y) == isParam(x) \/ isParam(y)
Not3(t) == IF t = "T" THEN "F" ELSE "T"

\* The comparison table on two values.
ComparesAsTable(x, y) ==
    /\ SameParam(x, y) =>
            /\ equals(x, y) = "T"
            /\ lessThanOrEqual(x, y) = "T"
            /\ greaterThanOrEqual(x, y) = "T"
            /\ lessThan(x, y) = "F"
            /\ greaterThan(x, y) = "F"
    /\ (SomeParam(x, y) /\ ~SameParam(x, y)) =>
            /\ equals(x, y) = "N"
            /\ lessThanOrEqual(x, y) = "N"
            /\ greaterThanOrEqual(x, y) = "N"
            /\ lessThan(x, y) = "N"
            /\ greaterThan(x, y) = "N"
    /\ ~SomeParam(x, y) =>
            /\ lessThan(x, y) = B3(x.v < y.v)
            /\ equals(x, y) = B3(lessThan(x, y) = "F" /\ lessThan(y, x) = "F")
            /\ lessThanOrEqual(x, y) = Not3(lessThan(y, x))
            /\ greaterThan(x, y) = lessThan(y, x)
            /\ greaterThanOrEqual(x, y) = Not3(lessThan(x, y))

C17_ContainsReflexive ==
    /\ isRange(ra) => contains(ra, ra) = "T"
    /\ isRange(rb) => contains(rb, rb) = "T"
    /\ (last.op = "contains" /\ last.recv = last.arg) => last.out = "T"

\* An intersection of a known Equals bound with a parametrized bound was asked
\* whether it contains itself, and answered false.
C17_IntersectionExcludesItself ==
    /\ last.op = "contains"
    /\ last.recv = last.arg
    /\ last.recv.op = "$and"
    /\ last.recv.known_bounds.op = "="
    /\ last.out = "F"

\* ------------------------------------------------------------------- C18

\* C18: equality is reflexive: every range equals itself, whatever its
\* variant, and a call r.equals(r) answers true (it neither fails nor
\* answers false or unknown).
C18_EqualsReflexive ==
    /\ isRange(ra) => Range_equals(ra, ra) = "T"
    /\ isRange(rb) => Range_equals(rb, rb) = "T"
    /\ (last.op = "equals" /\ last.recv = last.arg) => last.out = "T"

\* An intersection was compared with itself and the comparison threw.
C18_IntersectionEqualsThrows ==
    /\ last.op = "equals"
    /\ last.recv = last.arg
    /\ last.recv.op = "$and"
    /\ last.out = "E"

\* ------------------------------------------------------------------- C19

\* Every dimension of this is constrained in other, and the range of this
\* contains the range of other with an answer in the set answers.
EveryDimension(this, other, answers) ==
    \A i \in 1..Len(this.dims) :
        /\ hasKey(other, this.dims[i].d)
        /\ contains(this.dims[i].r, rangeOf(other, this.dims[i].d)) \in answers

\* What cube.contains(other) has to answer.
ContainsAnswer(this, other) ==
    IF EveryDimension(this, other, {"T"}) THEN "T"
    ELSE IF EveryDimension(this, other, {"T", "N"}) THEN "N"
    ELSE "F"

Decided(this, other) ==
    \A i \in 1..Len(this.dims) :
        hasKey(other, this.dims[i].d) =>
            contains(this.dims[i].r, rangeOf(other, this.dims[i].d)) \in {"T", "F", "N"}

\* C19: cube.contains(other) is true exactly when other constrains every
\* dimension of this and the range of this contains the range of other on
\* each of them; it is unknown when no such containment is false and some is
\* unknown; this holds of the Cube class of src/src/cube.js and of the Cube
\* class the queries use.
C19_CubeContains ==
    (last.op = "Cube.contains" /\ Decided(last.recv, last.arg)) =>
        /\ (last.out.src = "T") <=> (ContainsAnswer(last.recv, last.arg) = "T")
        /\ last.out.query = ContainsAnswer(last.recv, last.arg)

\* A cube with a wider range was asked whether it contains a cube with a
\* narrower range on the same single dimension, and the Cube class of
\* src/src/cube.js answered false.
C19_WiderDoesNotContainNarrower ==
    /\ last.op = "Cube.contains"
    /\ Len(last.recv.dims) = 1 /\ Len(last.arg.dims) = 1
    /\ last.recv.dims[1].d = last.arg.dims[1].d
    /\ last.recv.dims[1].r.op = "<=" /\ last.arg.dims[1].r.op = "="
    /\ contains(last.recv.dims[1].r, last.arg.dims[1].r) = "T"
    /\ last.out.src = "F"
    /\ last.out.query = "T"

\* ------------------------------------------------------------------- C20

\* r.bind(parameters), the empty range staying empty.
BoundIn(r, parameters) == IF isNull(r) THEN NullRange ELSE bind(r, parameters)

\* ra.intersect(rb).bind(parameters)
BindOfIntersect(parameters) == BoundIn(intersect(ra, rb, MaxDepth), parameters)

\* ra.bind(parameters).intersect(rb.bind(parameters))
IntersectOfBinds(parameters) ==
    LET x == bind(ra, parameters)
        y == bind(rb, parameters)
    IN  IF isNull(x) \/ isNull(y) THEN NullRange
        ELSE IF isRange(x) /\ isRange(y) THEN intersect(x, y, MaxDepth)
        ELSE ErrRange

\* The two results are both empty, or are ranges that equal each other.
EqualResult(x, y) ==
    \/ isNull(x) /\ isNull(y)
    \/ isRange(x) /\ isRange(y) /\ Range_equals(x, y) = "T"

\* C20: for every environment that binds all parameters, binding the
\* intersection of ra and rb gives a range equal to the intersection of the
\* bound ra and the bound rb, and either is empty exactly when the other is.
C20_BindDistributes ==
    (isRange(ra) /\ isRange(rb)) =>
        \A parameters \in Environments :
            EqualResult(BindOfIntersect(parameters), IntersectOfBinds(parameters))

\* <= $p and < v have been bound with $p bound to v: the intersection of the
\* bound ranges is <= v, while the bound intersection of the two is < v.
C20_BoundSeparatelyKeepsV ==
    /\ last.op = "bind"
    /\ last.recv[1].op = "<=" /\ isParam(last.recv[1].value)
    /\ last.recv[2].op = "<" /\ ~isParam(last.recv[2].value)
    /\ last.arg[last.recv[1].value.v] = last.recv[2].value
    /\ intersect(last.out[1], last.out[2], MaxDepth) = LessThanOrEqual(last.recv[2].value)
    /\ bind(intersect(last.recv[1], last.recv[2], MaxDepth), last.arg)
            = LessThan(last.recv[2].value)

\* ------------------------------------------------------------------- C21

\* C21: binding preserves containment: when ra.contains(rb) is true, then
\* for every environment binding all parameters ra.bind(env) contains
\* rb.bind(env).
C21_BindPreservesContains ==
    (isRange(ra) /\ isRange(rb) /\ contains(ra, rb) = "T") =>
        \A parameters \in Environments :
            contains(bind(ra, parameters), bind(rb, parameters)) = "T"

\* rb is the intersection of <= v with ra = < $p, which ra contains; with $p
\* bound to v the bound ra no longer contains the bound rb.
C21_BoundIntersectionEscapes ==
    /\ last.op = "intersect"
    /\ ra.op = "<" /\ isParam(ra.value)
    /\ rb.op = "$and" /\ rb.known_bounds.op = "<="
    /\ contains(ra, rb) = "T"
    /\ \E parameters \in Environments :
            /\ parameters[ra.value.v] = rb.known_bounds.value
            /\ bind(rb, parameters) = rb.known_bounds
            /\ contains(bind(ra, parameters), bind(rb, parameters)) = "F"

\* ------------------------------------------------------------------- C22

\* The range or query inside a HasElementMatching or Subquery range, and
\* what it binds to.
Inner(r) == IF r.op = "has" THEN r.bounds ELSE r.query
InnerBound(r, parameters) ==
    IF r.op = "has" THEN bind(r.bounds, parameters) ELSE Query_bind(r.query, parameters)
Empty(x) == x = NullRange \/ x = NullQuery
Wrapping(r) == r.op \in {"has", "contains"}

\* C22: binding a HasElementMatching or Subquery range whose inner range or
\* query binds to null gives null, never a HasElementMatching or Subquery
\* around null; when the binding leaves the inner value unchanged the range
\* itself is returned.
C22_BindOfEmptyInnerIsEmpty ==
    (last.op = "bind") =>
        \A i \in 1..2 :
            Wrapping(last.recv[i]) =>
                /\ Empty(InnerBound(last.recv[i], last.arg)) => isNull(last.out[i])
                /\ Wrapping(last.out[i]) => ~Empty(Inner(last.out[i]))
                /\ (InnerBound(last.recv[i], last.arg) = Inner(last.recv[i])) =>
                        last.out[i] = last.recv[i]

\* Range.has([$p, v]) has been bound with $p bound to v: the result is a
\* HasElementMatching around null.
C22_HasElementAroundNull ==
    /\ last.op = "bind"
    /\ last.recv[1].op = "has"
    /\ last.recv[1].bounds.op = "between"
    /\ last.out[1] = HasElementMatching(NullRange)

\* ------------------------------------------------------------------- C23

Kind(r) == IF Wrapping(r) THEN r.op ELSE "scalar"

\* C23: intersecting a HasElementMatching range with a scalar range, or a
\* Subquery range with a HasElementMatching or a scalar range, throws in
\* either operand order: the result is neither a range nor null.
C23_MixedKindsThrow ==
    (/\ last.op = "intersect"
     /\ last.recv.op # "*" /\ last.arg.op # "*"
     /\ Kind(last.recv) # Kind(last.arg)) => isErr(last.out)

\* A Between range has been intersected with a Subquery range, and the
\* result is null.
C23_BetweenWithSubqueryIsNull ==
    /\ last.op = "intersect"
    /\ last.recv.op = "between"
    /\ last.arg.op = "contains"
    /\ isNull(last.out)

\* ------------------------------------------------------------------- C24

\* C24: no operation changes its receiver: the query optimize was called on
\* has the same cubes after the call as before it (or, the other operation
\* of these sessions, builds its result in a new array and a new Query).
C24_ReceiverUnchanged ==
    (last.op = "optimize") => (last.out.after = last.recv /\ a = last.recv)

\* optimize has been called on a query of one cube, and the query has lost
\* its cube.
C24_OptimizeDeletes ==
    /\ last.op = "optimize"
    /\ Len(last.recv.union) = 1 /\ isCube(last.recv.union[1])
    /\ ~isCube(a.union[1])
    /\ ~last.out.threw

\* ------------------------------------------------------------------- C28

\* The positions of q whose cube optimize deleted.
Removed(before, after) ==
    {j \in 1..Len(before.union) : isCube(before.union[j]) /\ ~isCube(after.union[j])}

\* C28: optimize completes and removes only redundant cubes: every cube it
\* removes is contained by a cube that remains, and a query of one cube is
\* left as it was.
C28_OptimizeRemovesRedundant ==
    (last.op = "optimize" /\ Intact(last.recv)) =>
        /\ ~last.out.threw
        /\ \A j \in Removed(last.recv, last.out.after) :
                \E i \in 1..Len(last.recv.union) :
                    /\ isCube(last.out.after.union[i])
                    /\ Cube_contains(last.recv.union[i], last.recv.union[j]) = "T"
        /\ (Len(last.recv.union) = 1) => (last.out.after = last.recv)

\* optimize has been called on a query of two cubes neither of which contains
\* the other: it deleted the first cube and then threw.
C28_OptimizeThrows ==
    /\ last.op = "optimize"
    /\ Len(last.recv.union) = 2 /\ Intact(last.recv)
    /\ Cube_contains(last.recv.union[1], last.recv.union[2]) = "F"
    /\ Cube_contains(last.recv.union[2], last.recv.union[1]) = "F"
    /\ Removed(last.recv, last.out.after) = {1}
    /\ last.out.threw

\* ------------------------------------------------------------------- C25

\* The answers of the components of a Between or an Intersection to
\* contains(range).
ComponentAnswers(this, range) ==
    IF this.op = "between"
    THEN {contains(this.lower_bound, range), contains(this.upper_bound, range)}
    ELSE {contains(this.known_bounds, range)}
         \cup {contains(this.parametrized_bounds[p], range) :
                    p \in DOMAIN this.parametrized_bounds}

\* The three-valued AND of a set of answers; null and undefined both stand
\* for unknown.
And3(answers) ==
    IF "F" \in answers THEN "F"
    ELSE IF answers \subseteq {"T"} THEN "T"
    ELSE "N"

Unknown3(x) == IF x \in {"N", "U"} THEN "N" ELSE x

\* C25: contains of a Between or an Intersection is the three-valued AND of
\* the answers of its components: false when any is false, unknown when none
\* is false and one is unknown, true when all are true, in whatever order.
C25_ConjunctiveContains ==
    (/\ last.op = "contains"
     /\ last.recv.op \in {"between", "$and"}
     /\ "E" \notin ComponentAnswers(last.recv, last.arg)) =>
        Unknown3(last.out) = And3(ComponentAnswers(last.recv, last.arg))

\* A Between whose lower bound cannot tell and whose upper bound says false
\* has answered unknown.
C25_UnknownHidesFalse ==
    /\ last.op = "contains" /\ last.recv.op = "between"
    /\ contains(last.recv.lower_bound, last.arg) = "N"
    /\ contains(last.recv.upper_bound, last.arg) = "F"
    /\ last.out = "N"

\* ------------------------------------------------------------------- C26

RECURSIVE Betweens(_)
\* The Between ranges in a range: the range itself, or the bounds of an
\* Intersection.
Betweens(r) ==
    IF ~isRange(r) THEN {}
    ELSE IF r.op = "between" THEN {r}
    ELSE IF r.op = "$and"
    THEN Betweens(r.known_bounds)
         \cup UNION {Betweens(r.parametrized_bounds[p]) : p \in DOMAIN r.parametrized_bounds}
    ELSE {}

WellShaped(r) ==
    /\ r.lower_bound.op \in {">", ">="}
    /\ r.upper_bound.op \in {"<", "<="}
    /\ (~isParam(r.lower_bound.value) /\ ~isParam(r.upper_bound.value)) =>
            r.lower_bound.value.v < r.upper_bound.value.v

\* C26: every Between made by Range.from, intersect or bind has a lower bound
\* that is > or >=, an upper bound that is < or <=, and, when both values are
\* concrete, a lower value strictly less than the upper value.
C26_BetweenShape ==
    \A r \in Betweens(ra) \cup Betweens(rb) : WellShaped(r)

\* >= intersected with <= has made a Between whose lower bound is the <=
\* range and whose upper bound is the >= range.
C26_BoundsSwapped ==
    /\ last.op = "intersect"
    /\ last.recv.op = ">=" /\ last.arg.op = "<="
    /\ last.out.op = "between"
    /\ last.out.lower_bound = last.arg /\ last.out.upper_bound = last.recv

\* ------------------------------------------------------------------- C27

\* The entry of parametrized_bounds under key p is one simple range whose
\* value is the parameter p.
OwnParameter(r, p) ==
    /\ isRange(r) /\ r.op \in SimpleOps
    /\ r.value = Param(p)

IntersectionShape(r) ==
    /\ \A p \in DOMAIN r.parametrized_bounds : OwnParameter(r.parametrized_bounds[p], p)
    /\ {r.parameters[i] : i \in 1..Len(r.parameters)} = DOMAIN r.parametrized_bounds
    /\ \A i, j \in 1..Len(r.parameters) : r.parameters[i] = r.parameters[j] => i = j
    /\ isRange(r.known_bounds) /\ r.known_bounds.op # "$and"

\* C27: in every Intersection built by intersect on scalar ranges, each entry
\* of parametrized_bounds under key p is one simple range on the parameter p,
\* the parameters list holds exactly the keys, each once, and known_bounds is
\* not an Intersection.
C27_IntersectionShape ==
    \A r \in {ra, rb} : (isRange(r) /\ r.op = "$and") => IntersectionShape(r)

\* A Between on the parameter p has been intersected with another bound on
\* p: the two bounds on p were merged into the one entry under p.
C27_SameParameterMerged ==
    /\ last.op = "intersect" /\ last.out.op = "$and"
    /\ last.recv.op = "between" /\ last.arg.op \in SimpleOps
    /\ isParam(last.arg.value)
    /\ last.recv.lower_bound.value = last.arg.value
    /\ Len(last.out.parameters) = 1
    /\ OwnParameter(last.out.parametrized_bounds[last.arg.value.v], last.arg.value.v)

\* ------------------------------------------------------------------- C29

\* C29: in a query made by Query.from and or operations, no cube of the union
\* is contained by a cube at another position of the union; in particular no
\* cube is there twice.  (A query optimize has been called on is not Intact.)
C29_NoCubeContained ==
    Intact(a) =>
        \A i, j \in 1..Len(a.union) :
            (i # j) => (Cube_contains(a.union[i], a.union[j]) # "T")

\* A constraint that contains both cubes of the query has been or-ed to it:
\* the union holds the new cube twice.
C29_SameCubeTwice ==
    /\ last.op = "or" /\ Intact(last.recv) /\ Intact(a)
    /\ Len(last.recv.union) = 2
    /\ Len(a.union) = 2
    /\ a.union[1] = a.union[2]
    /\ a.union[1] \notin {last.recv.union[1], last.recv.union[2]}

\* ------------------------------------------------------------------- C30

\* The assignments of a value to every parameter.
Assignments == [1..NParams -> Numbers]

\* The number a value stands for under an assignment.
ValueUnder(value, env) == IF isParam(value) THEN env[value.v].v ELSE value.v

RECURSIVE SatisfiesUnder(_, _, _)
\* The number x is in the range r once the parameters have the values env
\* gives them.
SatisfiesUnder(x, r, env) ==
    CASE r.op = "*" -> TRUE
      [] r.op = "=" -> x = ValueUnder(r.value, env)
      [] r.op = "<" -> x < ValueUnder(r.value, env)
      [] r.op = "<=" -> x <= ValueUnder(r.value, env)
      [] r.op = ">" -> x > ValueUnder(r.value, env)
      [] r.op = ">=" -> x >= ValueUnder(r.value, env)
      [] r.op = "between" ->
            SatisfiesUnder(x, r.lower_bound, env) /\ SatisfiesUnder(x, r.upper_bound, env)
      [] r.op = "$and" ->
            /\ SatisfiesUnder(x, r.known_bounds, env)
            /\ \A p \in DOMAIN r.parametrized_bounds :
                    SatisfiesUnder(x, r.parametrized_bounds[p], env)

\* The record item satisfies the query q: it is in some cube of q.
AcceptsUnder(q, item, env) ==
    \E i \in 1..Len(q.union) :
        \A k \in 1..Len(q.union[i].dims) :
            SatisfiesUnder(item[q.union[i].dims[k].d].v, q.union[i].dims[k].r, env)

=============================================================================
